---------------------------- MODULE Spec2Model ----------------------------
(***************************************************************************)
(* Campaign dispatch and open tracking of the Gmail server backend.        *)
(*                                                                         *)
(* The store holds three tables (email_campaigns, emails, email_events).   *)
(* sendBulkEmails calls and updateEmailTracking calls run as asynchronous  *)
(* processes on one event loop: a process gives up control only at an      *)
(* await (a transport call or a db.query), so every action below is the    *)
(* code between two awaits together with the database statement or the    *)
(* transport call that the await waits for.  Every db.query and every      *)
(* transport call may succeed or fail.                                     *)
(***************************************************************************)
EXTENDS Integers, Sequences, FiniteSets, TLC

\* ------------------------------------------------------------------ bounds
\* number of sendBulkEmails calls
MaxDispatches == 2
\* number of recipients of all the calls together
MaxMessages == 3
\* calls, and recipients of all the calls together, where the calls run beside
\* updateEmailTracking calls
MaxTrackedDispatches == 1
MaxTrackedMessages == 1
\* number of updateEmailTracking calls
MaxOpens == 2
\* last value of the store's clock (CURRENT_TIMESTAMP)
MaxClock == 1
\* number of updateEmailTracking calls that run beside a getCampaignStats call
MaxStatsOpens == 1
\* rows of emails and of email_events in the stores getCampaignStats is applied to
MaxQueryRows == 2
MaxQueryEvents == 3
MaxSegments == 3
MaxRequestMessages == 2
MaxInterruptMessages == 2
MaxCredentialCalls == 2
MaxMailTokens == 2
MaxLiveDispatches == 1
MaxLiveMessages == 2
MaxTemplateCalls == 2

Dispatchers == 1..MaxDispatches
TrackedDispatchers == 1..MaxTrackedDispatches
Openers == 1..MaxOpens
StatsOpeners == 1..MaxStatsOpens

\* recipient addresses; two are enough to build lists with and without repeats
Addresses == {"a@x", "b@x"}
FirstAddress == "a@x"
\* campaignId arguments of sendBulkEmails
CampaignIds == {"c1", "c2"}
CampaignOrder == [c \in CampaignIds |-> IF c = "c1" THEN 1 ELSE 2]
\* campaignId = null
NoCampaign == "none"
\* trackingId = null (tracking disabled), and NULL timestamps
NoTracking == <<>>
NoTime == -1
\* a token of no message that was sent
UnknownToken == <<0, 0>>

RECURSIVE SeqsUpTo(_, _)
SeqsUpTo(S, n) ==
    IF n = 0 THEN {<<>>}
    ELSE LET shorter == SeqsUpTo(S, n - 1)
         IN  shorter \cup {Append(s, x) : s \in {t \in shorter : Len(t) = n - 1}, x \in S}

\* the recipient lists the controller lets through: non-empty arrays
RecipientLists == {s \in SeqsUpTo(Addresses, MaxMessages) : Len(s) >= 1}

VARIABLES
    campaigns,   \* email_campaigns: campaign id -> row, or NoRow when there is none
    emails,      \* emails: the set of rows (tracking_id is UNIQUE)
    events,      \* email_events: the rows in insertion order
    dispatches,  \* one record per sendBulkEmails call
    opens,       \* one record per updateEmailTracking call
    minted,      \* the tokens minted for the messages the transport has accepted
    now,         \* the store's clock: the latest CURRENT_TIMESTAMP a row holds
    stats,       \* the record of a getCampaignStats call
    render,      \* the record of a replacePlaceholders call
    credentials, \* email_credentials: the rows and the AUTO_INCREMENT counter
    request,     \* the record of a POST /email/send or /email/send-bulk request
    credCalls,   \* one record per credentials request
    mail,        \* the record of the preparation of one message in sendEmail
    templates,   \* email_templates: template id -> row, or NoTemplate
    templateCalls  \* one record per template request

vars == <<campaigns, emails, events, dispatches, opens, minted, now, stats, render, credentials, request, credCalls, mail, templates, templateCalls>>

NoRow == [status |-> "absent", total_recipients |-> 0, sent_count |-> 0, failed_count |-> 0]

\* ------------------------------------------------------------ email_campaigns
\* INSERT INTO email_campaigns (id, name, sender, status, total_recipients):
\* sent_count and failed_count take the schema's DEFAULT 0
NewCampaignRowNoTotal(n) ==
    [status |-> "in_progress", total_recipients |-> 0, sent_count |-> 0, failed_count |-> 0]

NewCampaignRow(n) ==
    [status |-> "in_progress", total_recipients |-> n, sent_count |-> 0, failed_count |-> 0]

\* id is the PRIMARY KEY: an INSERT of an id that has a row is rejected
PrimaryKeyConflictNever(id) == FALSE

PrimaryKeyConflict(id) == campaigns[id] # NoRow

\* UPDATE email_campaigns SET status = 'completed', sent_count = ?, failed_count = ?
CompletedRowSwapped(row, sent, failed) ==
    [row EXCEPT !.status = "completed", !.sent_count = failed, !.failed_count = sent]

CompletedRow(row, sent, failed) ==
    [row EXCEPT !.status = "completed", !.sent_count = sent, !.failed_count = failed]

\* --------------------------------------------------------------------- emails
\* the row saveEmailToDB inserts; opened_at is NULL until an open is tracked
EmailRowDefaultStatus(messageId, recipient, trackingId, status, campaignId) ==
    [message_id |-> messageId, recipient |-> recipient, tracking_id |-> trackingId,
     status |-> "sent", campaign_id |-> NoCampaign, opened_at |-> NoTime]

EmailRow(messageId, recipient, trackingId, status, campaignId) ==
    [message_id |-> messageId, recipient |-> recipient, tracking_id |-> trackingId,
     status |-> status, campaign_id |-> campaignId, opened_at |-> NoTime]

\* a token minted once for a whole sendBulkEmails call
generateTrackingPixelPerCall(d, i) == <<d, 1>>

\* uuidv4(): a value no other call returns; it is named after the call that made it
generateTrackingPixel(d, i) == <<d, i>>

\* WHERE tracking_id = ? AND status = 'delivered'
TrackingUpdateMatchesAnyStatus(row, trackingId) == row.tracking_id = trackingId

TrackingUpdateMatches(row, trackingId) ==
    row.tracking_id = trackingId /\ row.status = "delivered"

\* SET status = 'opened', opened_at = CURRENT_TIMESTAMP
TrackingUpdateSetSent(row, time) == [row EXCEPT !.status = "sent", !.opened_at = time]

TrackingUpdateSet(row, time) == [row EXCEPT !.status = "opened", !.opened_at = time]

\* the emails table after the UPDATE of updateEmailTracking
TrackingUpdate(rows, trackingId, time) ==
    {IF TrackingUpdateMatches(r, trackingId) THEN TrackingUpdateSet(r, time) ELSE r : r \in rows}

\* this.changes of that UPDATE
TrackingUpdateChanges(rows, trackingId) ==
    Cardinality({r \in rows : TrackingUpdateMatches(r, trackingId)})

\* ------------------------------------------------------------- sendBulkEmails
IdleDispatch ==
    [pc |-> "idle", recipients |-> <<>>, enableTracking |-> TRUE, campaignId |-> NoCampaign,
     i |-> 1, trackingId |-> NoTracking, successful |-> <<>>, failed |-> <<>>,
     attempted |-> <<>>, completions |-> 0]

\* results.successful.push({email, messageId, trackingId})
PushSuccessfulDropped(successful, entry) == successful

PushSuccessful(successful, entry) == Append(successful, entry)

\* results.failed.push({email, error})
PushFailedDropped(failed, entry) == failed

PushFailed(failed, entry) == Append(failed, entry)

\* the catch block ends the iteration: the for loop goes on with the next recipient
AfterCatchBreak(i, n) == n + 1

AfterCatch(i, n) == i + 1

\* the for loop is over once every element of recipients has been visited
LoopDoneEarly(i, n) == i >= n

LoopDone(i, n) == i > n

\* a call that returns after the loop without the campaign UPDATE
AfterIterationSkipsUpdate(p, next) ==
    [p EXCEPT !.i = next,
              !.trackingId = NoTracking,
              !.pc = IF ~LoopDone(next, Len(p.recipients)) THEN "send" ELSE "returned"]

\* where a call goes after the iteration for recipient i: the next iteration, or
\* past the loop to the campaign UPDATE (with a campaignId) or the return
AfterIteration(p, next) ==
    [p EXCEPT !.i = next,
              !.trackingId = NoTracking,
              !.pc = IF ~LoopDone(next, Len(p.recipients)) THEN "send"
                     ELSE IF p.campaignId # NoCampaign THEN "complete"
                     ELSE "returned"]

\* the try block ran to its end for recipient i
IterationSucceeded(p, messageId) ==
    AfterIteration(
        [p EXCEPT !.successful =
            PushSuccessful(@, [email |-> p.recipients[p.i], messageId |-> messageId,
                               trackingId |-> p.trackingId])],
        p.i + 1)

\* sendEmail threw for recipient i: the catch block
IterationFailedAfterPush(p) ==
    AfterIteration(
        [p EXCEPT !.successful = PushSuccessful(@, [email |-> p.recipients[p.i],
                                    messageId |-> NoTracking, trackingId |-> NoTracking]),
                  !.failed = PushFailed(@, [email |-> p.recipients[p.i], error |-> "Failed to send email"])],
        AfterCatch(p.i, Len(p.recipients)))

IterationFailed(p) ==
    AfterIteration(
        [p EXCEPT !.failed = PushFailed(@, [email |-> p.recipients[p.i], error |-> "Failed to send email"])],
        AfterCatch(p.i, Len(p.recipients)))

\* the object sendBulkEmails returns
BulkResult(p) ==
    [totalSent |-> Len(p.successful), totalFailed |-> Len(p.failed),
     successfulRecipients |-> p.successful, failedRecipients |-> p.failed]

\* ---------------------------------------------------------- replacePlaceholders
\* a string is the sequence of its characters
Hello == <<"H", "e", "l", "l", "o", " ">>
Hi == <<"H", "i", " ">>
AnnText == <<"A", "n", "n">>
NameKey == <<"n", "a", "m", "e">>
MissingKey == <<"m", "i", "s", "s", "i", "n", "g">>
ValueOfKey == <<"v", "a", "l", "u", "e", "O", "f">>
NamePlaceholder == <<"{", "{", "n", "a", "m", "e", "}", "}">>
SpacedNamePlaceholder == <<"{", "{", " ", "n", "a", "m", "e", " ", "}", "}">>
MissingPlaceholder == <<"{", "{", "m", "i", "s", "s", "i", "n", "g", "}", "}">>
CloseBraceKey == <<"a", "}", "b">>
OpenBraceKey == <<"a", "{", "b">>
CloseBracePlaceholder == <<"{", "{", "a", "}", "b", "}", "}">>
OpenBracePlaceholder == <<"{", "{", "a", "{", "b", "}", "}">>
ValueOfPlaceholder == <<"{", "{", "v", "a", "l", "u", "e", "O", "f", "}", "}">>

\* the pieces the contents are made of, and the contents of at most MaxSegments pieces
Segments ==
    {Hello, Hi, NamePlaceholder, SpacedNamePlaceholder, MissingPlaceholder,
     ValueOfPlaceholder, CloseBracePlaceholder, OpenBracePlaceholder, <<"{">>, <<"}">>}

RECURSIVE Concat(_)
Concat(pieces) == IF pieces = <<>> THEN <<>> ELSE pieces[1] \o Concat(Tail(pieces))

Contents == {Concat(pieces) : pieces \in SeqsUpTo(Segments, MaxSegments)}

\* the recipient objects: own property name -> value
EmptyRecipient == [key \in {} |-> <<>>]
Recipients ==
    {EmptyRecipient,
     [key \in {NameKey} |-> AnnText],
     [key \in {NameKey, MissingKey} |-> IF key = NameKey THEN AnnText ELSE NamePlaceholder],
     [key \in {CloseBraceKey, OpenBraceKey} |-> AnnText]}

\* the value of an absent property
Undefined == <<"undefined">>

\* what a property every object inherits (valueOf of Object.prototype, one of them)
\* reads as when the callback's return value is converted to a string
InheritedProperties == {ValueOfKey}
FunctionText(key) == <<"f", "u", "n", "c", "t", "i", "o", "n", " ">> \o key \o <<"(", ")", " ", "{", " ", "[", "n", "a", "t", "i", "v", "e", " ", "c", "o", "d", "e", "]", " ", "}">>

\* recipientData[key]: the own property, else the one inherited from Object.prototype
GetProperty(recipientData, key) ==
    IF key \in DOMAIN recipientData THEN recipientData[key]
    ELSE IF key \in InheritedProperties THEN FunctionText(key)
    ELSE Undefined

\* String.prototype.trim
Whitespace == {" "}

RECURSIVE TrimStart(_)
TrimStart(text) ==
    IF text # <<>> /\ Head(text) \in Whitespace THEN TrimStart(Tail(text)) ELSE text

RECURSIVE TrimEnd(_)
TrimEnd(text) ==
    IF text # <<>> /\ text[Len(text)] \in Whitespace
    THEN TrimEnd(SubSeq(text, 1, Len(text) - 1)) ELSE text

Trim(text) == TrimEnd(TrimStart(text))

\* a run that ends before the first }} instead of the first }
RECURSIVE RunEndBeforeClose(_, _)
RunEndBeforeClose(text, i) ==
    IF i <= Len(text) /\ ~(text[i] = "}" /\ i + 1 <= Len(text) /\ text[i + 1] = "}")
    THEN RunEndBeforeClose(text, i + 1) ELSE i

\* [^}]+ from position i: the position after the longest run of characters other than }
RECURSIVE RunEnd(_, _)
RunEnd(text, i) == IF i <= Len(text) /\ text[i] # "}" THEN RunEnd(text, i + 1) ELSE i

\* /\{\{([^}]+)\}\}/ at position i: the position of the last character of the match,
\* 0 when there is no match at i (a shorter run is followed by a character other
\* than }, so backtracking finds nothing more)
MatchEnd(text, i) ==
    LET j == RunEnd(text, i + 2)
    IN  IF /\ i + 1 <= Len(text) /\ text[i] = "{" /\ text[i + 1] = "{"
           /\ j > i + 2
           /\ j + 1 <= Len(text) /\ text[j] = "}" /\ text[j + 1] = "}"
        THEN j + 1 ELSE 0

\* the g flag: the matches from left to right without overlap; the pieces of the
\* text from position i on, a match with its capture group, the rest one character each
RECURSIVE Pieces(_, _)
Pieces(text, i) ==
    IF i > Len(text) THEN <<>>
    ELSE IF MatchEnd(text, i) # 0
         THEN <<[match |-> TRUE, text |-> SubSeq(text, i, MatchEnd(text, i)),
                 placeholder |-> SubSeq(text, i + 2, MatchEnd(text, i) - 2)]>>
              \o Pieces(text, MatchEnd(text, i) + 1)
         ELSE <<[match |-> FALSE, text |-> <<text[i]>>, placeholder |-> <<>>]>>
              \o Pieces(text, i + 1)

\* (match, placeholder) => { const value = recipientData[placeholder.trim()];
\*                           return value !== undefined ? value : match; }
Replacement(piece, recipientData) ==
    LET value == GetProperty(recipientData, Trim(piece.placeholder))
    IN  IF value # Undefined THEN value ELSE piece.text

replacePlaceholders(content, recipientData) ==
    IF content = <<>> THEN content
    ELSE LET pieces == Pieces(content, 1)
         IN  Concat([k \in DOMAIN pieces |->
                        IF pieces[k].match THEN Replacement(pieces[k], recipientData)
                        ELSE pieces[k].text])

\* a replacePlaceholders call that has not started
IdleRender == [pc |-> "idle", content |-> <<>>, recipientData |-> EmptyRecipient, result |-> <<>>]

\* ---------------------------------------------------------- the message of sendEmail
\* a token written into a URL
Digits == [n \in 0..9 |-> CASE n = 0 -> "0" [] n = 1 -> "1" [] n = 2 -> "2" [] n = 3 -> "3"
                            [] n = 4 -> "4" [] n = 5 -> "5" [] n = 6 -> "6" [] n = 7 -> "7"
                            [] n = 8 -> "8" [] OTHER -> "9"]
TokenText(trackingId) == <<Digits[trackingId[1]], "-", Digits[trackingId[2]]>>

\* generateTrackingPixel: trackingPixelHtml, with the default of API_URL
trackingPixelHtml(trackingId) ==
    <<"<", "i", "m", "g", " ", "s", "r", "c", "=", "\"", "h", "t", "t", "p", ":", "/", "/", "l", "o", "c", "a", "l", "h", "o", "s", "t", ":", "3", "0", "0", "0", "/", "a", "p", "i", "/", "e", "m", "a", "i", "l", "/", "t", "r", "a", "c", "k", "/">>
        \o TokenText(trackingId) \o <<"\"", " ", "w", "i", "d", "t", "h", "=", "\"", "1", "\"", " ", "h", "e", "i", "g", "h", "t", "=", "\"", "1", "\"", " ", "/", ">">>

\* tracking on for the truthy values of enableTracking only
TrackingEnabledWhenTruthy(enableTracking) == enableTracking = "true"

\* emailOptions.enableTracking !== false
TrackingEnabled(enableTracking) == enableTracking # "false"

\* a string that is absent or empty
Falsy(text) == text \in {Undefined, <<>>}

\* text.replace(/\n/g, '<br>')
RECURSIVE ReplaceNewlines(_)
ReplaceNewlines(text) ==
    IF text = <<>> THEN <<>>
    ELSE (IF Head(text) = "\n" THEN <<"<", "b", "r", ">">> ELSE <<Head(text)>>) \o ReplaceNewlines(Tail(text))

\* sendEmail from the tracking block to mailOptions: the html and text handed to the
\* transport, the trackingId returned, and how many tokens were minted
PrepareMail(emailOptions, token) ==
    LET htmlContent == IF Falsy(emailOptions.html) THEN <<>> ELSE emailOptions.html
        pixel == trackingPixelHtml(token)
    IN  IF TrackingEnabled(emailOptions.enableTracking)
        THEN [html |-> IF htmlContent # <<>> THEN htmlContent \o pixel
                       ELSE IF ~Falsy(emailOptions.text)
                            THEN <<"<", "d", "i", "v", ">">> \o ReplaceNewlines(emailOptions.text) \o <<"<", "/", "d", "i", "v", ">">> \o pixel
                            ELSE pixel,
              text |-> emailOptions.text, trackingId |-> token, generated |-> 1]
        ELSE [html |-> htmlContent, text |-> emailOptions.text, trackingId |-> NoTracking,
              generated |-> 0]

\* the html, text and enableTracking options sendEmail is called with
HtmlValues == {Undefined, <<>>, <<"<", "p", ">", "H", "i", "<", "/", "p", ">">>}
TextValues == {Undefined, <<>>, <<"H", "i">>, <<"a", "\n", "b">>}
EnableTrackingValues == {"undefined", "true", "false", "null"}
MailTokens == {generateTrackingPixel(d, 1) : d \in 1..MaxMailTokens}

\* the preparation of a message that has not started
IdleMail ==
    [pc |-> "idle",
     emailOptions |-> [html |-> Undefined, text |-> Undefined, enableTracking |-> "undefined"],
     token |-> UnknownToken,
     mailOptions |-> [html |-> <<>>, text |-> Undefined, trackingId |-> NoTracking,
                      generated |-> 0]]

\* ---------------------------------------------------------- requests
\* req.user.id, and the provider and email columns of email_credentials
Users == {"u1", "u2"}
Providers == {"gmail", "smtp"}
SenderEmails == {"s1@x", "s2@x"}

\* an empty email_credentials table
NoCredentials == [rows |-> {}, autoIncrement |-> 1]

\* a row of email_credentials (the OAuth columns are not read by anything modelled)
CredentialRow(id, userId, email, provider, isDefault) ==
    [id |-> id, user_id |-> userId, email |-> email, provider |-> provider,
     is_default |-> isDefault]

\* credentialId absent from the request
NoCredentialId == 0

\* getCredentials: SELECT * FROM email_credentials WHERE user_id = ? AND id = ?
\* (or AND is_default = TRUE) LIMIT 1: the rows one of which the query returns
getCredentials(credentialId, userId) ==
    {r \in credentials.rows :
        /\ r.user_id = userId
        /\ IF credentialId # NoCredentialId THEN r.id = credentialId ELSE r.is_default}

\* the values a field of req.body takes: absent, the empty string, a non-empty string
FieldValues == {"undefined", "", "value"}
\* !field
Not(field) == field \in {"undefined", ""}

\* req.body.recipients: absent, a string, or an array
NoRecipients == [kind |-> "undefined", items |-> <<>>]
RecipientValues ==
    {NoRecipients, [kind |-> "string", items |-> <<>>], [kind |-> "array", items |-> <<>>]}
        \cup {[kind |-> "array", items |-> rs] :
                rs \in {l \in RecipientLists : Len(l) <= MaxRequestMessages /\ l[1] = FirstAddress}}

\* the request bodies; enableTracking FALSE is the value false, TRUE any other value
Bodies ==
    [to : FieldValues, recipients : RecipientValues, subject : FieldValues, text : FieldValues,
     html : FieldValues, enableTracking : BOOLEAN, credentialId : {NoCredentialId, 1}]

\* a request that has not arrived; lookups counts the getCredentials queries and
\* sends the transporter.sendMail calls of the request
IdleRequest ==
    [pc |-> "idle", route |-> "send", user |-> "u1",
     body |-> [to |-> "undefined", recipients |-> NoRecipients, subject |-> "undefined",
               text |-> "undefined", html |-> "undefined", enableTracking |-> TRUE,
               credentialId |-> NoCredentialId],
     status |-> 0, lookups |-> 0, sends |-> 0]

\* the saveEmailCredentials, deleteEmailCredentials and credential resolution calls
CredentialCallers == 1..MaxCredentialCalls

\* a credentials call that has not started; body is req.body (oauth: clientId,
\* clientSecret and refreshToken are all present), credentialId the id the call
\* works on, resultUser the user_id of the credential a resolution returned
NoUser == "none"
IdleCredentialCall ==
    [pc |-> "idle", kind |-> "none", user |-> "u1",
     body |-> [email |-> "s1@x", provider |-> "gmail", oauth |-> TRUE, isDefault |-> FALSE],
     credentialId |-> NoCredentialId, status |-> 0, resultUser |-> NoUser]

\* ---------------------------------------------------------- email_templates
\* the ids of templates, and no id in the request
TemplateIds == {"t1", "t2"}
NoTemplateId == "none"

\* no row with that id
NoTemplate == [user_id |-> NoUser, content |-> "none", is_public |-> FALSE]

\* a row of email_templates; content stands for name, subject, html_content and
\* text_content, which every statement writes together
TemplateRow(userId, content, isPublic) ==
    [user_id |-> userId, content |-> content, is_public |-> isPublic]

\* the saveEmailTemplate and deleteEmailTemplate requests
TemplateCallers == 1..MaxTemplateCalls

\* a template request that has not started
IdleTemplateCall ==
    [pc |-> "idle", kind |-> "none", user |-> "u1", templateId |-> NoTemplateId, status |-> 0]

\* a getCampaignStats call that has not started: campaign, emails and openRateOverTime
\* are the locals of the call
IdleStats ==
    [pc |-> "idle", campaignId |-> NoCampaign, campaign |-> NoRow,
     counts |-> [delivered |-> 0, opened |-> 0, failed |-> 0], openRateOverTime |-> <<>>]

Init ==
    /\ campaigns = [c \in CampaignIds |-> NoRow]
    /\ emails = {}
    /\ events = <<>>
    /\ dispatches = [d \in Dispatchers |-> IdleDispatch]
    /\ opens = [o \in Openers |-> [pc |-> "idle", trackingId |-> UnknownToken,
                                   inserted |-> FALSE, changes |-> 0, result |-> FALSE]]
    /\ minted = {}
    /\ now = 0
    /\ stats = IdleStats
    /\ render = IdleRender
    /\ credentials = NoCredentials
    /\ request = IdleRequest
    /\ credCalls = [k \in CredentialCallers |-> IdleCredentialCall]
    /\ mail = IdleMail
    /\ templates = [t \in TemplateIds |-> NoTemplate]
    /\ templateCalls = [k \in TemplateCallers |-> IdleTemplateCall]

RECURSIVE RecipientsOfCalls(_)
RecipientsOfCalls(d) ==
    IF d = 0 THEN 0 ELSE Len(dispatches[d].recipients) + RecipientsOfCalls(d - 1)

\* the calls are numbered in the order in which they are made
CanCall(d) ==
    /\ dispatches[d].pc = "idle"
    /\ \A e \in 1..(d - 1) : dispatches[e].pc # "idle"

\* the recipient lists of a new call: all the calls together have at most budget
\* recipients, and the first recipient of the first call is the first address (the
\* addresses are interchangeable)
CallableLists(budget) ==
    {rs \in RecipientLists :
        /\ Len(rs) + RecipientsOfCalls(MaxDispatches) <= budget
        /\ RecipientsOfCalls(MaxDispatches) = 0 => rs[1] = FirstAddress}

\* the campaignId of a new call: an id some call was made with before, or the first
\* of the ids that no call was made with (the ids are interchangeable)
UsedCampaignIds == {dispatches[d].campaignId : d \in Dispatchers} \ {NoCampaign}
CallableCampaignIds ==
    UsedCampaignIds \cup
        {c \in CampaignIds : c \notin UsedCampaignIds
                              /\ \A b \in CampaignIds \ UsedCampaignIds : CampaignOrder[c] <= CampaignOrder[b]}

\* sendBulkEmails is called without a campaignId: the loop starts at once
BulkStartNoCampaign(d, budget) ==
    /\ CanCall(d)
    /\ \E rs \in CallableLists(budget), t \in BOOLEAN :
        dispatches' = [dispatches EXCEPT ![d] =
            [IdleDispatch EXCEPT !.pc = "send", !.recipients = rs, !.enableTracking = t]]
    /\ UNCHANGED <<campaigns, emails, events, opens, minted, now, stats, render, credentials, request, credCalls, mail, templates, templateCalls>>

\* sendBulkEmails is called with a campaignId and the campaign INSERT succeeds
BulkStartCampaign(d, budget) ==
    /\ CanCall(d)
    /\ \E rs \in CallableLists(budget), t \in BOOLEAN, c \in CallableCampaignIds :
        /\ ~PrimaryKeyConflict(c)
        /\ campaigns' = [campaigns EXCEPT ![c] = NewCampaignRow(Len(rs))]
        /\ dispatches' = [dispatches EXCEPT ![d] =
            [IdleDispatch EXCEPT !.pc = "send", !.recipients = rs,
                                 !.enableTracking = t, !.campaignId = c]]
    /\ UNCHANGED <<emails, events, opens, minted, now, stats, render, credentials, request, credCalls, mail, templates, templateCalls>>

\* the campaign INSERT is rejected (the id has a row, or the store is down):
\* the await throws outside any try block and sendBulkEmails rejects
BulkStartInsertFails(d, budget) ==
    /\ CanCall(d)
    /\ \E rs \in CallableLists(budget), c \in CallableCampaignIds :
        dispatches' = [dispatches EXCEPT ![d] =
            [IdleDispatch EXCEPT !.pc = "raised", !.recipients = rs, !.campaignId = c]]
    /\ UNCHANGED <<campaigns, emails, events, opens, minted, now, stats, render, credentials, request, credCalls, mail, templates, templateCalls>>

\* sendEmail up to the await of transporter.sendMail.  createTransporter awaits only
\* the OAuth access token and the code up to sendMail reads and writes nothing that
\* another call sees, so the two awaits are one step of the call.

\* the token of the message for recipient i: minted unless enableTracking is false
TokenFor(d) ==
    IF dispatches[d].enableTracking THEN generateTrackingPixel(d, dispatches[d].i)
    ELSE NoTracking

\* a transport that cannot be created rejecting the whole call
CreateTransporterFailsRaises(d) ==
    LET p == dispatches[d] IN
    /\ p.pc = "send"
    /\ dispatches' = [dispatches EXCEPT ![d] =
            [p EXCEPT !.attempted = Append(@, p.i), !.pc = "raised"]]
    /\ UNCHANGED <<campaigns, emails, events, opens, minted, now, stats, render, credentials, request, credCalls, mail, templates, templateCalls>>

\* createTransporter throws before a token is minted; sendEmail rethrows and the
\* loop's catch runs
CreateTransporterFails(d) ==
    LET p == dispatches[d] IN
    /\ p.pc = "send"
    /\ dispatches' = [dispatches EXCEPT ![d] =
            IterationFailed([p EXCEPT !.attempted = Append(@, p.i)])]
    /\ UNCHANGED <<campaigns, emails, events, opens, minted, now, stats, render, credentials, request, credCalls, mail, templates, templateCalls>>

\* a failed send that is recorded as an emails row with status 'failed'
SendMailFailsSavesRow(d) ==
    LET p == dispatches[d] IN
    /\ p.pc = "send"
    /\ emails' = emails \cup
            {EmailRow(<<d, p.i>>, p.recipients[p.i], generateTrackingPixel(d, p.i),
                      "failed", p.campaignId)}
    /\ dispatches' = [dispatches EXCEPT ![d] =
            IterationFailed([p EXCEPT !.attempted = Append(@, p.i)])]
    /\ UNCHANGED <<campaigns, events, opens, minted, now, stats, render, credentials, request, credCalls, mail, templates, templateCalls>>

\* transporter.sendMail rejects; sendEmail rethrows and the loop's catch runs; the
\* token minted for the message reaches nobody
SendMailFails(d) ==
    LET p == dispatches[d] IN
    /\ p.pc = "send"
    /\ dispatches' = [dispatches EXCEPT ![d] =
            IterationFailed([p EXCEPT !.attempted = Append(@, p.i)])]
    /\ UNCHANGED <<campaigns, emails, events, opens, minted, now, stats, render, credentials, request, credCalls, mail, templates, templateCalls>>

\* transporter.sendMail resolves; without a trackingId nothing is saved
SendMail(d) ==
    LET p == dispatches[d]
        q == [p EXCEPT !.attempted = Append(@, p.i), !.trackingId = TokenFor(d)]
    IN
    /\ p.pc = "send"
    /\ dispatches' = [dispatches EXCEPT ![d] =
            IF q.trackingId # NoTracking THEN [q EXCEPT !.pc = "save"]
            ELSE IterationSucceeded(q, <<d, p.i>>)]
    /\ minted' = minted \cup ({TokenFor(d)} \ {NoTracking})
    /\ UNCHANGED <<campaigns, emails, events, opens, now, stats, render, credentials, request, credCalls, mail, templates, templateCalls>>

\* sendEmail: saveEmailToDB inserts the row with status 'delivered'
SaveEmail(d) ==
    LET p == dispatches[d] IN
    /\ p.pc = "save"
    /\ \A r \in emails : r.tracking_id # p.trackingId /\ r.message_id # <<d, p.i>>
    /\ emails' = emails \cup
            {EmailRow(<<d, p.i>>, p.recipients[p.i], p.trackingId, "delivered", p.campaignId)}
    /\ dispatches' = [dispatches EXCEPT ![d] = IterationSucceeded(p, <<d, p.i>>)]
    /\ UNCHANGED <<campaigns, events, opens, minted, now, stats, render, credentials, request, credCalls, mail, templates, templateCalls>>

\* saveEmailToDB rethrowing: sendEmail rejects and the loop's catch runs
SaveEmailFailsThrows(d) ==
    LET p == dispatches[d] IN
    /\ p.pc = "save"
    /\ dispatches' = [dispatches EXCEPT ![d] = IterationFailed(p)]
    /\ UNCHANGED <<campaigns, emails, events, opens, minted, now, stats, render, credentials, request, credCalls, mail, templates, templateCalls>>

\* sendEmail: the INSERT of saveEmailToDB fails; the error is logged and swallowed
SaveEmailFails(d) ==
    LET p == dispatches[d] IN
    /\ p.pc = "save"
    /\ dispatches' = [dispatches EXCEPT ![d] = IterationSucceeded(p, <<d, p.i>>)]
    /\ UNCHANGED <<campaigns, emails, events, opens, minted, now, stats, render, credentials, request, credCalls, mail, templates, templateCalls>>

\* the campaign UPDATE without its WHERE id = ?: every campaign row is updated
CompleteCampaignAllRows(d) ==
    LET p == dispatches[d] IN
    /\ p.pc = "complete"
    /\ campaigns' = [c \in CampaignIds |->
            IF campaigns[c] = NoRow THEN NoRow
            ELSE CompletedRow(campaigns[c], Len(p.successful), Len(p.failed))]
    /\ dispatches' = [dispatches EXCEPT ![d] =
            [p EXCEPT !.pc = "returned", !.completions = @ + 1]]
    /\ UNCHANGED <<emails, events, opens, minted, now, stats, render, credentials, request, credCalls, mail, templates, templateCalls>>

\* the campaign UPDATE after the loop, then the return
CompleteCampaign(d) ==
    LET p == dispatches[d] IN
    /\ p.pc = "complete"
    /\ campaigns' = [campaigns EXCEPT ![p.campaignId] =
            CompletedRow(@, Len(p.successful), Len(p.failed))]
    /\ dispatches' = [dispatches EXCEPT ![d] =
            [p EXCEPT !.pc = "returned", !.completions = @ + 1]]
    /\ UNCHANGED <<emails, events, opens, minted, now, stats, render, credentials, request, credCalls, mail, templates, templateCalls>>

\* the campaign UPDATE fails: the await throws and sendBulkEmails rejects
CompleteCampaignFails(d) ==
    LET p == dispatches[d] IN
    /\ p.pc = "complete"
    /\ dispatches' = [dispatches EXCEPT ![d] = [p EXCEPT !.pc = "raised"]]
    /\ UNCHANGED <<campaigns, emails, events, opens, minted, now, stats, render, credentials, request, credCalls, mail, templates, templateCalls>>

\* the process stops while the call waits at one of its awaits: nothing the call has
\* written is undone and nothing more is written
Interrupt(d) ==
    LET p == dispatches[d] IN
    /\ p.pc \in {"send", "save", "complete"}
    /\ dispatches' = [dispatches EXCEPT ![d] = [p EXCEPT !.pc = "interrupted"]]
    /\ UNCHANGED <<campaigns, emails, events, opens, minted, now, stats, render, credentials, request, credCalls, mail, templates, templateCalls>>

\* ----------------------------------------------------------- getCampaignStats
\* a GROUP BY status over the rows of every campaign
GroupByStatusAllCampaigns(campaignId) ==
    {[status |-> st, count |-> Cardinality({r \in emails : r.status = st})] :
        st \in {r.status : r \in emails}}

\* SELECT status, COUNT(*) as count FROM emails WHERE campaign_id = ? GROUP BY status:
\* one row per status that a row of the campaign has
GroupByStatus(campaignId) ==
    LET selected == {r \in emails : r.campaign_id = campaignId} IN
    {[status |-> st, count |-> Cardinality({r \in selected : r.status = st})] :
        st \in {r.status : r \in selected}}

\* emails.find(s => s.status === status)?.count || 0
FindCount(groups, status) ==
    IF \E g \in groups : g.status = status
    THEN (CHOOSE g \in groups : g.status = status).count
    ELSE 0

StatusCount(campaignId, status) == FindCount(GroupByStatus(campaignId), status)

\* the stats object of the result for a campaign that has a row
CampaignCounts(campaignId) ==
    [delivered |-> StatusCount(campaignId, "delivered"),
     opened |-> StatusCount(campaignId, "opened"),
     failed |-> StatusCount(campaignId, "failed")]

\* DATE(opened_at): the calendar day of a timestamp, NULL of NULL; a day has two
\* ticks of the store's clock
DateOf(time) == IF time = NoTime THEN NoTime ELSE time \div 2

\* emails e JOIN email_events ev ON e.tracking_id = ev.tracking_id
\* WHERE e.campaign_id = ? AND ev.event_type = 'open'
JoinedOpens(campaignId) ==
    {j \in emails \X DOMAIN events :
        /\ j[1].campaign_id = campaignId
        /\ events[j[2]].tracking_id = j[1].tracking_id
        /\ events[j[2]].event_type = "open"}

\* ORDER BY date: ascending, NULL first
RECURSIVE OrderByDate(_)
OrderByDate(dates) ==
    IF dates = {} THEN <<>>
    ELSE LET first == CHOOSE x \in dates : \A y \in dates : x <= y
         IN  <<first>> \o OrderByDate(dates \ {first})

\* the query grouping by e.opened_at instead of its date
OpenRateOverTimeByTimestamp(campaignId) ==
    LET joined == JoinedOpens(campaignId)
        times == OrderByDate({j[1].opened_at : j \in joined})
    IN  [k \in DOMAIN times |->
            [date |-> DateOf(times[k]),
             opens |-> Cardinality({j \in joined : j[1].opened_at = times[k]})]]

\* SELECT DATE(e.opened_at) as date, COUNT(*) as opens ... GROUP BY DATE(e.opened_at)
\* ORDER BY date
OpenRateOverTime(campaignId) ==
    LET joined == JoinedOpens(campaignId)
        dates == OrderByDate({DateOf(j[1].opened_at) : j \in joined})
    IN  [k \in DOMAIN dates |->
            [date |-> dates[k],
             opens |-> Cardinality({j \in joined : DateOf(j[1].opened_at) = dates[k]})]]

\* the campaignId of a call: an id that has a row, or an id a sendBulkEmails call
\* could be made with
QueryCampaignIds == {c \in CampaignIds : campaigns[c] # NoRow} \cup CallableCampaignIds

\* the catch block: the locals are gone and 'Failed to retrieve campaign statistics'
\* is thrown
StatsCatch(call) == [IdleStats EXCEPT !.pc = "raised"]

\* SELECT * FROM email_campaigns WHERE id = ?; without a row the call returns
\* { error: 'Campaign not found' }
SelectCampaign ==
    /\ stats.pc = "idle"
    /\ \E c \in QueryCampaignIds :
        stats' =
            IF campaigns[c] = NoRow
            THEN [IdleStats EXCEPT !.pc = "notfound", !.campaignId = c]
            ELSE [IdleStats EXCEPT !.pc = "emails", !.campaignId = c, !.campaign = campaigns[c]]
    /\ UNCHANGED <<campaigns, emails, events, dispatches, opens, minted, now, render, credentials, request, credCalls, mail, templates, templateCalls>>

\* the SELECT of the campaign fails
SelectCampaignFails ==
    /\ stats.pc = "idle"
    /\ stats' = StatsCatch(stats)
    /\ UNCHANGED <<campaigns, emails, events, dispatches, opens, minted, now, render, credentials, request, credCalls, mail, templates, templateCalls>>

\* a SELECT of the counts that also stores them in the campaign row
SelectCountsRefreshesCampaign ==
    /\ stats.pc = "emails"
    /\ stats' = [stats EXCEPT !.pc = "openrate", !.counts = CampaignCounts(stats.campaignId)]
    /\ campaigns' = [campaigns EXCEPT ![stats.campaignId] =
            [@ EXCEPT !.sent_count = CampaignCounts(stats.campaignId).delivered]]
    /\ UNCHANGED <<emails, events, dispatches, opens, minted, now, render, credentials, request, credCalls, mail, templates, templateCalls>>

\* SELECT status, COUNT(*) ... FROM emails WHERE campaign_id = ? GROUP BY status
SelectCounts ==
    /\ stats.pc = "emails"
    /\ stats' = [stats EXCEPT !.pc = "openrate", !.counts = CampaignCounts(stats.campaignId)]
    /\ UNCHANGED <<campaigns, emails, events, dispatches, opens, minted, now, render, credentials, request, credCalls, mail, templates, templateCalls>>

\* the SELECT of the counts fails
SelectCountsFails ==
    /\ stats.pc = "emails"
    /\ stats' = StatsCatch(stats)
    /\ UNCHANGED <<campaigns, emails, events, dispatches, opens, minted, now, render, credentials, request, credCalls, mail, templates, templateCalls>>

\* the SELECT of openRateOverTime, then the return of the result
SelectOpenRate ==
    /\ stats.pc = "openrate"
    /\ stats' = [stats EXCEPT !.pc = "done", !.openRateOverTime = OpenRateOverTime(stats.campaignId)]
    /\ UNCHANGED <<campaigns, emails, events, dispatches, opens, minted, now, render, credentials, request, credCalls, mail, templates, templateCalls>>

\* the SELECT of openRateOverTime fails
SelectOpenRateFails ==
    /\ stats.pc = "openrate"
    /\ stats' = StatsCatch(stats)
    /\ UNCHANGED <<campaigns, emails, events, dispatches, opens, minted, now, render, credentials, request, credCalls, mail, templates, templateCalls>>

\* what a getCampaignStats call that read every table as it is now returns
getCampaignStats(campaignId) ==
    IF campaigns[campaignId] = NoRow THEN [error |-> "Campaign not found"]
    ELSE [campaign |-> campaigns[campaignId],
          stats |-> CampaignCounts(campaignId),
          openRateOverTime |-> OpenRateOverTime(campaignId)]

\* what the call returned
StatsResult ==
    IF stats.pc = "notfound" THEN [error |-> "Campaign not found"]
    ELSE [campaign |-> stats.campaign,
          stats |-> stats.counts,
          openRateOverTime |-> stats.openRateOverTime]

\* ------------------------------------------------------- updateEmailTracking
\* the tokens a pixel request can carry: the token of a message that was sent, or any
\* other string
RequestTokens == minted \cup {UnknownToken}

EventRow(trackingId, eventType) == [tracking_id |-> trackingId, event_type |-> eventType]

\* the catch block of updateEmailTracking with the error rethrown
TrackingCatchRethrows(call) == [call EXCEPT !.pc = "raised"]

\* the catch block of updateEmailTracking: log the error and return false
TrackingCatch(call) == [call EXCEPT !.pc = "done", !.result = FALSE]

\* the requests are numbered in the order in which they are made
CanTrack(o) == opens[o].pc = "idle" /\ \A q \in 1..(o - 1) : opens[q].pc # "idle"

\* the event written over the latest row of email_events instead of after it
InsertOpenEventOverwrites(o) ==
    /\ CanTrack(o)
    /\ \E t \in RequestTokens :
        /\ events' = IF events = <<>> THEN <<EventRow(t, "open")>>
                      ELSE [events EXCEPT ![Len(events)] = EventRow(t, "open")]
        /\ opens' = [opens EXCEPT ![o] =
                [@ EXCEPT !.pc = "update", !.trackingId = t, !.inserted = TRUE]]
    /\ UNCHANGED <<campaigns, emails, dispatches, minted, now, stats, render, credentials, request, credCalls, mail, templates, templateCalls>>

\* the call starts and its INSERT INTO email_events succeeds
InsertOpenEvent(o) ==
    /\ CanTrack(o)
    /\ \E t \in RequestTokens :
        /\ events' = Append(events, EventRow(t, "open"))
        /\ opens' = [opens EXCEPT ![o] =
                [@ EXCEPT !.pc = "update", !.trackingId = t, !.inserted = TRUE]]
    /\ UNCHANGED <<campaigns, emails, dispatches, minted, now, stats, render, credentials, request, credCalls, mail, templates, templateCalls>>

\* a failed INSERT after which the call goes on to its UPDATE
InsertOpenEventFailsGoesOn(o) ==
    /\ CanTrack(o)
    /\ \E t \in RequestTokens :
        opens' = [opens EXCEPT ![o] = [@ EXCEPT !.pc = "update", !.trackingId = t]]
    /\ UNCHANGED <<campaigns, emails, events, dispatches, minted, now, stats, render, credentials, request, credCalls, mail, templates, templateCalls>>

\* the INSERT fails: the catch block returns false, the UPDATE is never issued
InsertOpenEventFails(o) ==
    /\ CanTrack(o)
    /\ \E t \in RequestTokens :
        opens' = [opens EXCEPT ![o] = TrackingCatch([@ EXCEPT !.trackingId = t])]
    /\ UNCHANGED <<campaigns, emails, events, dispatches, minted, now, stats, render, credentials, request, credCalls, mail, templates, templateCalls>>

\* the conditional UPDATE of emails, then return true; CURRENT_TIMESTAMP is the
\* time at which the store runs the statement, which is never before the time an
\* earlier statement stored
UpdateOpened(o) ==
    /\ opens[o].pc = "update"
    /\ \E time \in now..MaxClock :
        /\ emails' = TrackingUpdate(emails, opens[o].trackingId, time)
        /\ now' = IF emails' # emails THEN time ELSE now
    /\ opens' = [opens EXCEPT ![o] =
            [@ EXCEPT !.pc = "done", !.result = TRUE,
                      !.changes = TrackingUpdateChanges(emails, opens[o].trackingId)]]
    /\ UNCHANGED <<campaigns, events, dispatches, minted, stats, render, credentials, request, credCalls, mail, templates, templateCalls>>

\* the UPDATE fails: the catch block returns false
UpdateOpenedFails(o) ==
    /\ opens[o].pc = "update"
    /\ opens' = [opens EXCEPT ![o] = TrackingCatch(@)]
    /\ UNCHANGED <<campaigns, emails, events, dispatches, minted, now, stats, render, credentials, request, credCalls, mail, templates, templateCalls>>

\* ----------------------------------------------- GET /email/track/:trackingId
\* the answer trackEmailOpen writes: 200, Content-Type image/gif, the 1x1 GIF
GifResponse == [status |-> 200, contentType |-> "image/gif", body |-> "gif1x1"]

\* globalErrorHandler: the JSON answer to an error that was passed to next(), with
\* err.statusCode || 500 as its status
globalErrorHandler(statusCode) ==
    [status |-> statusCode, contentType |-> "application/json", body |-> "error"]

\* trackEmailOpen answering 404 when the UPDATE matched no row
trackEmailOpenNotFound(call) ==
    IF call.changes = 0 THEN globalErrorHandler(404) ELSE GifResponse

\* trackEmailOpen after its await of updateEmailTracking: the value the call returned
\* is dropped and the GIF is written
trackEmailOpen(call) == GifResponse

\* the requests that authMiddleware turns away reach no handler and no table: they are
\* numbered from the last one down, the others from the first one up
CanReject(o) ==
    /\ opens[o].pc = "idle"
    /\ \A q \in (o + 1)..MaxOpens : opens[q].pc \in {"unauthorized", "autherror"}

\* router.use(authMiddleware) is registered before the route: a request without a
\* valid bearer token (no header, bad or expired token, unknown user, password changed)
\* is passed to next() with a 401 error before the handler runs
AuthRejects(o) ==
    /\ CanReject(o)
    /\ opens' = [opens EXCEPT ![o] = [@ EXCEPT !.pc = "unauthorized"]]
    /\ UNCHANGED <<campaigns, emails, events, dispatches, minted, now, stats, render, credentials, request, credCalls, mail, templates, templateCalls>>

\* the SELECT of the user in authMiddleware fails: the catch block passes a 500 error
AuthFails(o) ==
    /\ CanReject(o)
    /\ opens' = [opens EXCEPT ![o] = [@ EXCEPT !.pc = "autherror"]]
    /\ UNCHANGED <<campaigns, emails, events, dispatches, minted, now, stats, render, credentials, request, credCalls, mail, templates, templateCalls>>

NoResponse == [status |-> 0, contentType |-> "", body |-> ""]

\* the answer to pixel request o: of the middleware, of the handler, or of catchAsync
\* when the handler's promise rejects
TrackResponse(o) ==
    CASE opens[o].pc = "unauthorized" -> globalErrorHandler(401)
      [] opens[o].pc = "autherror" -> globalErrorHandler(500)
      [] opens[o].pc = "raised" -> globalErrorHandler(500)
      [] opens[o].pc = "done" -> trackEmailOpen(opens[o])
      [] OTHER -> NoResponse

\* ------------------------------------ GET /email/campaigns/:campaignId/stats
\* the handler answering 200 whatever the service returned
getCampaignStatsHandlerIgnoresError(result) ==
    [status |-> 200, contentType |-> "application/json", body |-> "stats"]

\* the handler after its await of the service: an error value is passed to next() as
\* a 404 error, anything else is sent with status 200
getCampaignStatsHandler(result) ==
    IF "error" \in DOMAIN result THEN globalErrorHandler(404)
    ELSE [status |-> 200, contentType |-> "application/json", body |-> "stats"]

\* the answer to the stats request: of the handler, or of catchAsync when the service
\* threw
StatsResponse ==
    CASE stats.pc = "raised" -> globalErrorHandler(500)
      [] stats.pc \in {"notfound", "done"} -> getCampaignStatsHandler(StatsResult)
      [] OTHER -> NoResponse

\* ---------------------------------------------------------- request handlers
\* controller sendEmail: the checks of the required fields
sendEmailInvalid(body) ==
    Not(body.to) \/ Not(body.subject) \/ (Not(body.text) /\ Not(body.html))

\* the checks without !Array.isArray(recipients) and recipients.length === 0
sendBulkEmailsInvalidNoArrayCheck(body) ==
    \/ body.recipients.kind = "undefined"
    \/ Not(body.subject)
    \/ (Not(body.text) /\ Not(body.html))

\* controller sendBulkEmails: the checks of the required fields
sendBulkEmailsInvalid(body) ==
    \/ body.recipients.kind = "undefined"
    \/ body.recipients.kind # "array"
    \/ Len(body.recipients.items) = 0
    \/ Not(body.subject)
    \/ (Not(body.text) /\ Not(body.html))

Invalid(route, body) ==
    IF route = "send" THEN sendEmailInvalid(body) ELSE sendBulkEmailsInvalid(body)

Respond(statusCode) == [request EXCEPT !.pc = "responded", !.status = statusCode]

\* the handler up to its first await: next(new AppError(..., 400)) for a body that
\* fails a check, else the getCredentials query is issued
ValidateRequest ==
    /\ request.pc = "received"
    /\ request' = IF Invalid(request.route, request.body) THEN Respond(400)
                  ELSE [request EXCEPT !.pc = "credentials"]
    /\ UNCHANGED <<campaigns, emails, events, dispatches, opens, minted, now, stats, render, credentials, credCalls, mail, templates, templateCalls>>

\* getCredentials returns a credential: the service is called
GetCredentialsFound ==
    /\ request.pc = "credentials"
    /\ getCredentials(request.body.credentialId, request.user) # {}
    /\ request' = [request EXCEPT !.pc = "service", !.lookups = @ + 1]
    /\ UNCHANGED <<campaigns, emails, events, dispatches, opens, minted, now, stats, render, credentials, credCalls, mail, templates, templateCalls>>

\* getCredentials returns null: next(new AppError('Email credentials not found', 404))
GetCredentialsNone ==
    /\ request.pc = "credentials"
    /\ getCredentials(request.body.credentialId, request.user) = {}
    /\ request' = [Respond(404) EXCEPT !.lookups = @ + 1]
    /\ UNCHANGED <<campaigns, emails, events, dispatches, opens, minted, now, stats, render, credentials, credCalls, mail, templates, templateCalls>>

\* the SELECT of getCredentials fails: catchAsync passes the error on
GetCredentialsFails ==
    /\ request.pc = "credentials"
    /\ request' = [Respond(500) EXCEPT !.lookups = @ + 1]
    /\ UNCHANGED <<campaigns, emails, events, dispatches, opens, minted, now, stats, render, credentials, credCalls, mail, templates, templateCalls>>

\* POST /email/send: emailService.sendEmail.  createTransporter throws: the catch
\* of sendEmail rethrows and catchAsync passes the error on
SendOneTransporterFails ==
    /\ request.pc = "service" /\ request.route = "send"
    /\ request' = Respond(500)
    /\ UNCHANGED <<campaigns, emails, events, dispatches, opens, minted, now, stats, render, credentials, credCalls, mail, templates, templateCalls>>

\* transporter.sendMail rejects
SendOneFails ==
    /\ request.pc = "service" /\ request.route = "send"
    /\ request' = [Respond(500) EXCEPT !.sends = @ + 1]
    /\ UNCHANGED <<campaigns, emails, events, dispatches, opens, minted, now, stats, render, credentials, credCalls, mail, templates, templateCalls>>

\* transporter.sendMail resolves: with a trackingId saveEmailToDB is next, without
\* one the result is returned and the handler answers 200
SendOne ==
    /\ request.pc = "service" /\ request.route = "send"
    /\ request' = IF request.body.enableTracking
                  THEN [request EXCEPT !.pc = "save", !.sends = @ + 1]
                  ELSE [Respond(200) EXCEPT !.sends = @ + 1]
    /\ minted' = minted \cup (IF request.body.enableTracking
                              THEN {generateTrackingPixel(0, 1)} ELSE {})
    /\ UNCHANGED <<campaigns, emails, events, dispatches, opens, now, stats, render, credentials, credCalls, mail, templates, templateCalls>>

\* saveEmailToDB inserts the row (campaignId is not among the options: NULL)
SaveOne ==
    /\ request.pc = "save"
    /\ emails' = emails \cup
            {EmailRow(<<0, 1>>, FirstAddress, generateTrackingPixel(0, 1), "delivered", NoCampaign)}
    /\ request' = Respond(200)
    /\ UNCHANGED <<campaigns, events, dispatches, opens, minted, now, stats, render, credentials, credCalls, mail, templates, templateCalls>>

\* the INSERT of saveEmailToDB fails: logged and swallowed
SaveOneFails ==
    /\ request.pc = "save"
    /\ request' = Respond(200)
    /\ UNCHANGED <<campaigns, emails, events, dispatches, opens, minted, now, stats, render, credentials, credCalls, mail, templates, templateCalls>>

\* POST /email/send-bulk: emailService.sendBulkEmails is called with the body's
\* recipients and a campaignId from uuidv4()
BulkCalled ==
    /\ request.pc = "service" /\ request.route = "send-bulk"
    /\ dispatches[1].pc = "idle"

BulkCallMatchesBody ==
    /\ dispatches'[1].recipients = request.body.recipients.items
    /\ dispatches'[1].enableTracking = (dispatches'[1].pc = "raised" \/ request.body.enableTracking)

RequestStartCampaign ==
    /\ BulkCalled
    /\ BulkStartCampaign(1, MaxRequestMessages)
    /\ BulkCallMatchesBody

RequestStartInsertFails ==
    /\ BulkCalled
    /\ BulkStartInsertFails(1, MaxRequestMessages)
    /\ BulkCallMatchesBody

\* the await of emailService.sendBulkEmails settles: 200 with the result, or the
\* rejection is passed on by catchAsync
sendBulkEmailsResponds ==
    /\ request.pc = "service" /\ request.route = "send-bulk"
    /\ dispatches[1].pc \in {"returned", "raised"}
    /\ request' = [Respond(IF dispatches[1].pc = "returned" THEN 200 ELSE 500)
                     EXCEPT !.sends = Len(dispatches[1].attempted)]
    /\ UNCHANGED <<campaigns, emails, events, dispatches, opens, minted, now, stats, render, credentials, credCalls, mail, templates, templateCalls>>

\* ---------------------------------------------------------- credentials handlers
\* the bodies of POST /email/credentials: the complete ones, one without provider
\* and one for gmail without the OAuth fields
SaveBodies ==
    [email : SenderEmails, provider : Providers, oauth : {TRUE}, isDefault : BOOLEAN]
        \cup {[email |-> "s1@x", provider |-> "undefined", oauth |-> TRUE, isDefault |-> TRUE],
              [email |-> "s1@x", provider |-> "gmail", oauth |-> FALSE, isDefault |-> TRUE]}

\* saveEmailCredentials: the checks of the required fields
SaveInvalid(body) ==
    \/ body.provider = "undefined"
    \/ body.provider = "gmail" /\ ~body.oauth

\* the calls are numbered in the order in which they are made; the first is user u1's
CanStartCredentialCall(k) ==
    /\ credCalls[k].pc = "idle"
    /\ \A j \in 1..(k - 1) : credCalls[j].pc # "idle"

CallingUsers(k) == IF k = 1 THEN {"u1"} ELSE Users

Started(k, kind, user) == [IdleCredentialCall EXCEPT !.kind = kind, !.user = user]

Answer(call, statusCode) == [call EXCEPT !.pc = "responded", !.status = statusCode]

\* UPDATE email_credentials SET is_default = FALSE WHERE user_id = ? AND provider = ?
ClearDefaults(rows, userId, provider) ==
    {IF r.user_id = userId /\ r.provider = provider THEN [r EXCEPT !.is_default = FALSE] ELSE r :
        r \in rows}

\* SELECT id FROM email_credentials WHERE user_id = ? AND email = ? AND provider = ?
ExistingCredentials(rows, userId, email, provider) ==
    {r.id : r \in {x \in rows : x.user_id = userId /\ x.email = email /\ x.provider = provider}}

\* UNIQUE INDEX idx_credentials_user_email (user_id, email)
UniqueConflict(rows, userId, email) ==
    \E r \in rows : r.user_id = userId /\ r.email = email

\* the body fails a check: next(new AppError(..., 400)) before any statement
SaveRejected(k) ==
    /\ CanStartCredentialCall(k)
    /\ \E u \in CallingUsers(k), body \in SaveBodies :
        /\ SaveInvalid(body)
        /\ credCalls' = [credCalls EXCEPT ![k] =
                Answer([Started(k, "save", u) EXCEPT !.body = body], 400)]
    /\ UNCHANGED <<campaigns, emails, events, dispatches, opens, minted, now, stats, render, request, credentials, mail, templates, templateCalls>>

\* isDefault is set: the UPDATE that clears the defaults
SaveClearDefaults(k) ==
    /\ CanStartCredentialCall(k)
    /\ \E u \in CallingUsers(k), body \in SaveBodies :
        /\ ~SaveInvalid(body) /\ body.isDefault
        /\ credentials' = [credentials EXCEPT !.rows = ClearDefaults(@, u, body.provider)]
        /\ credCalls' = [credCalls EXCEPT ![k] =
                [Started(k, "save", u) EXCEPT !.body = body, !.pc = "select"]]
    /\ UNCHANGED <<campaigns, emails, events, dispatches, opens, minted, now, stats, render, request, mail, templates, templateCalls>>

SaveClearDefaultsFails(k) ==
    /\ CanStartCredentialCall(k)
    /\ \E u \in CallingUsers(k), body \in SaveBodies :
        /\ ~SaveInvalid(body) /\ body.isDefault
        /\ credCalls' = [credCalls EXCEPT ![k] =
                Answer([Started(k, "save", u) EXCEPT !.body = body], 500)]
    /\ UNCHANGED <<campaigns, emails, events, dispatches, opens, minted, now, stats, render, request, credentials, mail, templates, templateCalls>>

\* where the call goes after the SELECT of the existing credentials
AfterSelectExisting(call) ==
    LET existing == ExistingCredentials(credentials.rows, call.user, call.body.email,
                                        call.body.provider)
    IN  IF existing # {}
        THEN [call EXCEPT !.pc = "update", !.credentialId = CHOOSE id \in existing : TRUE]
        ELSE [call EXCEPT !.pc = "insert"]

\* isDefault is not set: the SELECT of the existing credentials is the first statement
SaveSelectFirst(k) ==
    /\ CanStartCredentialCall(k)
    /\ \E u \in CallingUsers(k), body \in SaveBodies :
        /\ ~SaveInvalid(body) /\ ~body.isDefault
        /\ credCalls' = [credCalls EXCEPT ![k] =
                AfterSelectExisting([Started(k, "save", u) EXCEPT !.body = body])]
    /\ UNCHANGED <<campaigns, emails, events, dispatches, opens, minted, now, stats, render, request, credentials, mail, templates, templateCalls>>

SaveSelectFirstFails(k) ==
    /\ CanStartCredentialCall(k)
    /\ \E u \in CallingUsers(k), body \in SaveBodies :
        /\ ~SaveInvalid(body) /\ ~body.isDefault
        /\ credCalls' = [credCalls EXCEPT ![k] =
                Answer([Started(k, "save", u) EXCEPT !.body = body], 500)]
    /\ UNCHANGED <<campaigns, emails, events, dispatches, opens, minted, now, stats, render, request, credentials, mail, templates, templateCalls>>

\* the SELECT of the existing credentials after the defaults were cleared
SaveSelectExisting(k) ==
    /\ credCalls[k].pc = "select"
    /\ credCalls' = [credCalls EXCEPT ![k] = AfterSelectExisting(@)]
    /\ UNCHANGED <<campaigns, emails, events, dispatches, opens, minted, now, stats, render, request, credentials, mail, templates, templateCalls>>

\* the UPDATE ... WHERE id = ? of the credential found
SaveUpdate(k) ==
    LET call == credCalls[k] IN
    /\ call.pc = "update"
    /\ credentials' = [credentials EXCEPT !.rows =
            {IF r.id = call.credentialId THEN [r EXCEPT !.is_default = call.body.isDefault]
             ELSE r : r \in @}]
    /\ credCalls' = [credCalls EXCEPT ![k] = Answer(call, 200)]
    /\ UNCHANGED <<campaigns, emails, events, dispatches, opens, minted, now, stats, render, request, mail, templates, templateCalls>>

\* the INSERT of a new credential; insertId is the AUTO_INCREMENT value
SaveInsert(k) ==
    LET call == credCalls[k] IN
    /\ call.pc = "insert"
    /\ ~UniqueConflict(credentials.rows, call.user, call.body.email)
    /\ credentials' =
            [rows |-> credentials.rows \cup
                        {CredentialRow(credentials.autoIncrement, call.user, call.body.email,
                                       call.body.provider, call.body.isDefault)},
             autoIncrement |-> credentials.autoIncrement + 1]
    /\ credCalls' = [credCalls EXCEPT ![k] =
            Answer([call EXCEPT !.credentialId = credentials.autoIncrement], 200)]
    /\ UNCHANGED <<campaigns, emails, events, dispatches, opens, minted, now, stats, render, request, mail, templates, templateCalls>>

\* a statement of the call after its first is rejected (the INSERT by the unique
\* index too): catchAsync passes the error on
SaveStatementFails(k) ==
    /\ credCalls[k].kind = "save"
    /\ credCalls[k].pc \in {"select", "update", "insert"}
    /\ credCalls' = [credCalls EXCEPT ![k] = Answer(@, 500)]
    /\ UNCHANGED <<campaigns, emails, events, dispatches, opens, minted, now, stats, render, request, credentials, mail, templates, templateCalls>>

\* deleteEmailCredentials: SELECT * FROM email_credentials WHERE id = ? AND user_id = ?
DeleteSelect(k) ==
    /\ CanStartCredentialCall(k)
    /\ \E u \in CallingUsers(k), id \in 1..MaxCredentialCalls :
        credCalls' = [credCalls EXCEPT ![k] =
            LET call == [Started(k, "delete", u) EXCEPT !.credentialId = id] IN
            IF \E r \in credentials.rows : r.id = id /\ r.user_id = u
            THEN [call EXCEPT !.pc = "delete"]
            ELSE Answer(call, 404)]
    /\ UNCHANGED <<campaigns, emails, events, dispatches, opens, minted, now, stats, render, request, credentials, mail, templates, templateCalls>>

\* DELETE FROM email_credentials WHERE id = ?
DeleteRow(k) ==
    LET call == credCalls[k] IN
    /\ call.pc = "delete"
    /\ credentials' = [credentials EXCEPT !.rows = {r \in @ : r.id # call.credentialId}]
    /\ credCalls' = [credCalls EXCEPT ![k] = Answer(call, 200)]
    /\ UNCHANGED <<campaigns, emails, events, dispatches, opens, minted, now, stats, render, request, mail, templates, templateCalls>>

\* a statement of deleteEmailCredentials fails
DeleteStatementFails(k) ==
    /\ \/ CanStartCredentialCall(k)
       \/ credCalls[k].pc = "delete"
    /\ \E u \in CallingUsers(k) :
        credCalls' = [credCalls EXCEPT ![k] =
            IF credCalls[k].pc = "delete" THEN Answer(@, 500)
            ELSE Answer(Started(k, "delete", u), 500)]
    /\ UNCHANGED <<campaigns, emails, events, dispatches, opens, minted, now, stats, render, request, credentials, mail, templates, templateCalls>>

\* getCredentials(undefined, userId): the row the query returns, or null
ResolveDefault(k) ==
    /\ CanStartCredentialCall(k)
    /\ \E u \in CallingUsers(k) :
        \/ \E r \in getCredentials(NoCredentialId, u) :
              credCalls' = [credCalls EXCEPT ![k] =
                  Answer([Started(k, "resolve", u) EXCEPT !.credentialId = r.id,
                                                          !.resultUser = r.user_id], 200)]
        \/ /\ getCredentials(NoCredentialId, u) = {}
           /\ credCalls' = [credCalls EXCEPT ![k] = Answer(Started(k, "resolve", u), 404)]
    /\ UNCHANGED <<campaigns, emails, events, dispatches, opens, minted, now, stats, render, request, credentials, mail, templates, templateCalls>>

\* ---------------------------------------------------------- template handlers
\* the bodies of POST /email/templates: the complete ones, one without name and one
\* without html and text
SaveTemplateBodies ==
    [name : {"value"}, content : {"a", "b"}, isPublic : BOOLEAN]
        \cup {[name |-> "undefined", content |-> "a", isPublic |-> FALSE],
              [name |-> "value", content |-> "undefined", isPublic |-> FALSE]}

\* controller saveEmailTemplate: the checks of the required fields
SaveTemplateInvalid(body) == body.name = "undefined" \/ body.content = "undefined"

CanStartTemplateCall(k) ==
    /\ templateCalls[k].pc = "idle"
    /\ \A j \in 1..(k - 1) : templateCalls[j].pc # "idle"

StartedTemplateCall(kind, user, id) ==
    [IdleTemplateCall EXCEPT !.kind = kind, !.user = user, !.templateId = id]

AnswerTemplateCall(call, statusCode) == [call EXCEPT !.pc = "responded", !.status = statusCode]

\* templateData.id || uuidv4(): the id of the request, or an id no row has
SavedTemplateIds(id) ==
    IF id # NoTemplateId THEN {id}
    ELSE {t \in TemplateIds : templates[t] = NoTemplate}

\* INSERT INTO email_templates ... ON DUPLICATE KEY UPDATE name, subject, html_content,
\* text_content, is_public: a new row with the caller as user_id, or the row of that
\* id with its user_id kept and the other columns written
UpsertTemplate(row, userId, content, isPublic) ==
    IF row = NoTemplate THEN TemplateRow(userId, content, isPublic)
    ELSE [row EXCEPT !.content = content, !.is_public = isPublic]

\* the body fails a check: next(new AppError(..., 400)) before any statement
SaveTemplateRejected(k) ==
    /\ CanStartTemplateCall(k)
    /\ \E u \in CallingUsers(k), body \in SaveTemplateBodies :
        /\ SaveTemplateInvalid(body)
        /\ templateCalls' = [templateCalls EXCEPT ![k] =
                AnswerTemplateCall(StartedTemplateCall("save", u, NoTemplateId), 400)]
    /\ UNCHANGED <<campaigns, emails, events, dispatches, opens, minted, now, stats, render, credentials, request, credCalls, mail, templates>>

\* emailService.saveEmailTemplate: the one statement, then 200 with the templateId
SaveTemplate(k) ==
    /\ CanStartTemplateCall(k)
    /\ \E u \in CallingUsers(k), body \in SaveTemplateBodies,
          id \in TemplateIds \cup {NoTemplateId} :
        /\ ~SaveTemplateInvalid(body)
        /\ \E t \in SavedTemplateIds(id) :
            /\ templates' = [templates EXCEPT ![t] =
                    UpsertTemplate(@, u, body.content, body.isPublic)]
            /\ templateCalls' = [templateCalls EXCEPT ![k] =
                    AnswerTemplateCall(StartedTemplateCall("save", u, t), 200)]
    /\ UNCHANGED <<campaigns, emails, events, dispatches, opens, minted, now, stats, render, credentials, request, credCalls, mail>>

\* the statement fails: 'Failed to save email template' is thrown and passed on
SaveTemplateFails(k) ==
    /\ CanStartTemplateCall(k)
    /\ \E u \in CallingUsers(k), id \in TemplateIds \cup {NoTemplateId} :
        templateCalls' = [templateCalls EXCEPT ![k] =
            AnswerTemplateCall(StartedTemplateCall("save", u, id), 500)]
    /\ UNCHANGED <<campaigns, emails, events, dispatches, opens, minted, now, stats, render, credentials, request, credCalls, mail, templates>>

\* deleteEmailTemplate: SELECT * FROM email_templates WHERE id = ? AND user_id = ?
DeleteTemplateSelect(k) ==
    /\ CanStartTemplateCall(k)
    /\ \E u \in CallingUsers(k), id \in TemplateIds :
        templateCalls' = [templateCalls EXCEPT ![k] =
            IF templates[id] # NoTemplate /\ templates[id].user_id = u
            THEN [StartedTemplateCall("delete", u, id) EXCEPT !.pc = "delete"]
            ELSE AnswerTemplateCall(StartedTemplateCall("delete", u, id), 404)]
    /\ UNCHANGED <<campaigns, emails, events, dispatches, opens, minted, now, stats, render, credentials, request, credCalls, mail, templates>>

\* DELETE FROM email_templates WHERE id = ?
DeleteTemplateRow(k) ==
    LET call == templateCalls[k] IN
    /\ call.pc = "delete"
    /\ templates' = [templates EXCEPT ![call.templateId] = NoTemplate]
    /\ templateCalls' = [templateCalls EXCEPT ![k] = AnswerTemplateCall(call, 200)]
    /\ UNCHANGED <<campaigns, emails, events, dispatches, opens, minted, now, stats, render, credentials, request, credCalls, mail>>

\* a statement of deleteEmailTemplate fails
DeleteTemplateFails(k) ==
    /\ \/ CanStartTemplateCall(k)
       \/ templateCalls[k].pc = "delete"
    /\ \E u \in CallingUsers(k), id \in TemplateIds :
        templateCalls' = [templateCalls EXCEPT ![k] =
            IF templateCalls[k].pc = "delete" THEN AnswerTemplateCall(@, 500)
            ELSE AnswerTemplateCall(StartedTemplateCall("delete", u, id), 500)]
    /\ UNCHANGED <<campaigns, emails, events, dispatches, opens, minted, now, stats, render, credentials, request, credCalls, mail, templates>>

\* the sendBulkEmails calls alone
DispatchNext ==
    \/ \E d \in Dispatchers : BulkStartNoCampaign(d, MaxMessages)
    \/ \E d \in Dispatchers : BulkStartCampaign(d, MaxMessages)
    \/ \E d \in Dispatchers : BulkStartInsertFails(d, MaxMessages)
    \/ \E d \in Dispatchers : CreateTransporterFails(d)
    \/ \E d \in Dispatchers : SendMailFails(d)
    \/ \E d \in Dispatchers : SendMail(d)
    \/ \E d \in Dispatchers : SaveEmail(d)
    \/ \E d \in Dispatchers : SaveEmailFails(d)
    \/ \E d \in Dispatchers : CompleteCampaign(d)
    \/ \E d \in Dispatchers : CompleteCampaignFails(d)

SpecDispatch == Init /\ [][DispatchNext]_vars

\* sendBulkEmails calls together with the pixel requests of the recipients
Next ==
    \/ \E d \in TrackedDispatchers : BulkStartNoCampaign(d, MaxTrackedMessages)
    \/ \E d \in TrackedDispatchers : BulkStartCampaign(d, MaxTrackedMessages)
    \/ \E d \in TrackedDispatchers : BulkStartInsertFails(d, MaxTrackedMessages)
    \/ \E d \in TrackedDispatchers : CreateTransporterFails(d)
    \/ \E d \in TrackedDispatchers : SendMailFails(d)
    \/ \E d \in TrackedDispatchers : SendMail(d)
    \/ \E d \in TrackedDispatchers : SaveEmail(d)
    \/ \E d \in TrackedDispatchers : SaveEmailFails(d)
    \/ \E d \in TrackedDispatchers : CompleteCampaign(d)
    \/ \E d \in TrackedDispatchers : CompleteCampaignFails(d)
    \/ \E o \in Openers : InsertOpenEvent(o)
    \/ \E o \in Openers : InsertOpenEventFails(o)
    \/ \E o \in Openers : UpdateOpened(o)
    \/ \E o \in Openers : UpdateOpenedFails(o)
    \/ \E o \in Openers : AuthRejects(o)
    \/ \E o \in Openers : AuthFails(o)

Spec == Init /\ [][Next]_vars

\* a getCampaignStats call beside sendBulkEmails calls and pixel requests
StatsNext ==
    \/ \E d \in TrackedDispatchers : BulkStartNoCampaign(d, MaxTrackedMessages)
    \/ \E d \in TrackedDispatchers : BulkStartCampaign(d, MaxTrackedMessages)
    \/ \E d \in TrackedDispatchers : BulkStartInsertFails(d, MaxTrackedMessages)
    \/ \E d \in TrackedDispatchers : CreateTransporterFails(d)
    \/ \E d \in TrackedDispatchers : SendMailFails(d)
    \/ \E d \in TrackedDispatchers : SendMail(d)
    \/ \E d \in TrackedDispatchers : SaveEmail(d)
    \/ \E d \in TrackedDispatchers : SaveEmailFails(d)
    \/ \E d \in TrackedDispatchers : CompleteCampaign(d)
    \/ \E d \in TrackedDispatchers : CompleteCampaignFails(d)
    \/ \E o \in StatsOpeners : InsertOpenEvent(o)
    \/ \E o \in StatsOpeners : InsertOpenEventFails(o)
    \/ \E o \in StatsOpeners : UpdateOpened(o)
    \/ \E o \in StatsOpeners : UpdateOpenedFails(o)
    \/ SelectCampaign
    \/ SelectCampaignFails
    \/ SelectCounts
    \/ SelectCountsFails
    \/ SelectOpenRate
    \/ SelectOpenRateFails

SpecStats == Init /\ [][StatsNext]_vars

\* ------------------------------------------ getCampaignStats on a given store
\* The queries of getCampaignStats are functions of the three tables.  The stores
\* they are applied to here are what finished sendBulkEmails and updateEmailTracking
\* calls leave behind: message k of the call made with campaign c has a row or not,
\* delivered or opened at some time; an opened row has an open event; there are open
\* events of rows, also of delivered ones, and of unknown tokens; a campaign that has
\* rows of emails has a row.
StoredChoices == (CampaignIds \cup {NoCampaign}) \X ({NoTime} \cup 0..MaxClock)

\* the row of message k of the call made with campaign choice[1], opened at choice[2]
StoredRow(k, choice) ==
    LET d == CampaignOrder[choice[1]]
        saved == EmailRow(<<d, k>>, FirstAddress, generateTrackingPixel(d, k),
                          "delivered", choice[1])
    IN  IF choice[2] = NoTime THEN saved ELSE TrackingUpdateSet(saved, choice[2])

StoredEmails(f) == {StoredRow(k, f[k]) : k \in {j \in DOMAIN f : f[j][1] # NoCampaign}}

RECURSIVE LatestTime(_)
LatestTime(rows) ==
    IF rows = {} THEN 0
    ELSE LET r == CHOOSE x \in rows : TRUE
             rest == LatestTime(rows \ {r})
         IN  IF r.opened_at > rest THEN r.opened_at ELSE rest

InitQuery ==
    /\ \E f \in [1..MaxQueryRows -> StoredChoices] :
        /\ \A k \in DOMAIN f : f[k][1] = NoCampaign => f[k][2] = NoTime
        /\ emails = StoredEmails(f)
        /\ \E started \in SUBSET CampaignIds :
              /\ \A r \in StoredEmails(f) : r.campaign_id \in started
              /\ campaigns = [c \in CampaignIds |->
                    IF c \in started THEN NewCampaignRow(MaxQueryRows) ELSE NoRow]
        /\ \E tokens \in SeqsUpTo({r.tracking_id : r \in StoredEmails(f)} \cup {UnknownToken},
                                   MaxQueryEvents) :
              /\ \A r \in StoredEmails(f) :
                    r.status = "opened" => \E k \in DOMAIN tokens : tokens[k] = r.tracking_id
              /\ events = [k \in DOMAIN tokens |-> EventRow(tokens[k], "open")]
        /\ now = LatestTime(StoredEmails(f))
    /\ dispatches = [d \in Dispatchers |-> IdleDispatch]
    /\ opens = [o \in Openers |-> [pc |-> "idle", trackingId |-> UnknownToken,
                                   inserted |-> FALSE, changes |-> 0, result |-> FALSE]]
    /\ minted = {}
    /\ stats = IdleStats
    /\ render = IdleRender
    /\ credentials = NoCredentials
    /\ request = IdleRequest
    /\ credCalls = [k \in CredentialCallers |-> IdleCredentialCall]
    /\ mail = IdleMail
    /\ templates = [t \in TemplateIds |-> NoTemplate]
    /\ templateCalls = [k \in TemplateCallers |-> IdleTemplateCall]

QueryNext ==
    \/ SelectCampaign
    \/ SelectCampaignFails
    \/ SelectCounts
    \/ SelectCountsFails
    \/ SelectOpenRate
    \/ SelectOpenRateFails

SpecQuery == InitQuery /\ [][QueryNext]_vars

\* ---------------------------------------------------------- render specification
\* a call of replacePlaceholders on a drawn content and recipient
InitRender ==
    /\ campaigns = [c \in CampaignIds |-> NoRow]
    /\ emails = {}
    /\ events = <<>>
    /\ dispatches = [d \in Dispatchers |-> IdleDispatch]
    /\ opens = [o \in Openers |-> [pc |-> "idle", trackingId |-> UnknownToken,
                                   inserted |-> FALSE, changes |-> 0, result |-> FALSE]]
    /\ minted = {}
    /\ now = 0
    /\ stats = IdleStats
    /\ \E content \in Contents, recipientData \in Recipients :
          render = [pc |-> "idle", content |-> content, recipientData |-> recipientData,
                    result |-> <<>>]
    /\ credentials = NoCredentials
    /\ request = IdleRequest
    /\ credCalls = [k \in CredentialCallers |-> IdleCredentialCall]
    /\ mail = IdleMail
    /\ templates = [t \in TemplateIds |-> NoTemplate]
    /\ templateCalls = [k \in TemplateCallers |-> IdleTemplateCall]

Render ==
    /\ render.pc = "idle"
    /\ render' = [render EXCEPT !.pc = "done",
                                !.result = replacePlaceholders(render.content, render.recipientData)]
    /\ UNCHANGED <<campaigns, emails, events, dispatches, opens, minted, now, stats, credentials, request, credCalls, mail, templates, templateCalls>>

RenderNext == Render

SpecRender == InitRender /\ [][RenderNext]_vars

\* ---------------------------------------------------------- request specification
\* one request with a drawn body against a drawn email_credentials table
StoredCredentials ==
    {NoCredentials}
        \cup {[rows |-> {CredentialRow(1, u, "s1@x", "gmail", isDefault)}, autoIncrement |-> 2] :
                u \in Users, isDefault \in BOOLEAN}

InitRequest ==
    /\ campaigns = [c \in CampaignIds |-> NoRow]
    /\ emails = {}
    /\ events = <<>>
    /\ dispatches = [d \in Dispatchers |-> IdleDispatch]
    /\ opens = [o \in Openers |-> [pc |-> "idle", trackingId |-> UnknownToken,
                                   inserted |-> FALSE, changes |-> 0, result |-> FALSE]]
    /\ minted = {}
    /\ now = 0
    /\ stats = IdleStats
    /\ render = IdleRender
    /\ credentials \in StoredCredentials
    /\ \E route \in {"send", "send-bulk"}, body \in Bodies :
          /\ route = "send" => body.recipients = NoRecipients
          /\ route = "send-bulk" => body.to = "undefined"
          /\ request = [IdleRequest EXCEPT !.pc = "received", !.route = route, !.body = body]
    /\ credCalls = [k \in CredentialCallers |-> IdleCredentialCall]
    /\ mail = IdleMail
    /\ templates = [t \in TemplateIds |-> NoTemplate]
    /\ templateCalls = [k \in TemplateCallers |-> IdleTemplateCall]

RequestNext ==
    \/ ValidateRequest
    \/ GetCredentialsFound
    \/ GetCredentialsNone
    \/ GetCredentialsFails
    \/ SendOneTransporterFails
    \/ SendOneFails
    \/ SendOne
    \/ SaveOne
    \/ SaveOneFails
    \/ RequestStartCampaign
    \/ RequestStartInsertFails
    \/ CreateTransporterFails(1)
    \/ SendMailFails(1)
    \/ SendMail(1)
    \/ SaveEmail(1)
    \/ SaveEmailFails(1)
    \/ CompleteCampaign(1)
    \/ CompleteCampaignFails(1)
    \/ sendBulkEmailsResponds

SpecRequest == InitRequest /\ [][RequestNext]_vars

\* ---------------------------------------------------------- interrupted dispatch
\* one sendBulkEmails call that may be stopped at any of its awaits
InterruptNext ==
    \/ BulkStartNoCampaign(1, MaxInterruptMessages)
    \/ BulkStartCampaign(1, MaxInterruptMessages)
    \/ BulkStartInsertFails(1, MaxInterruptMessages)
    \/ CreateTransporterFails(1)
    \/ SendMailFails(1)
    \/ SendMail(1)
    \/ SaveEmail(1)
    \/ SaveEmailFails(1)
    \/ CompleteCampaign(1)
    \/ CompleteCampaignFails(1)
    \/ Interrupt(1)

SpecInterrupt == Init /\ [][InterruptNext]_vars

\* ---------------------------------------------------------- credentials specification
CredentialsNext ==
    \/ \E k \in CredentialCallers : SaveRejected(k)
    \/ \E k \in CredentialCallers : SaveClearDefaults(k)
    \/ \E k \in CredentialCallers : SaveClearDefaultsFails(k)
    \/ \E k \in CredentialCallers : SaveSelectFirst(k)
    \/ \E k \in CredentialCallers : SaveSelectFirstFails(k)
    \/ \E k \in CredentialCallers : SaveSelectExisting(k)
    \/ \E k \in CredentialCallers : SaveUpdate(k)
    \/ \E k \in CredentialCallers : SaveInsert(k)
    \/ \E k \in CredentialCallers : SaveStatementFails(k)
    \/ \E k \in CredentialCallers : DeleteSelect(k)
    \/ \E k \in CredentialCallers : DeleteRow(k)
    \/ \E k \in CredentialCallers : DeleteStatementFails(k)
    \/ \E k \in CredentialCallers : ResolveDefault(k)

SpecCredentials == Init /\ [][CredentialsNext]_vars

\* ---------------------------------------------------------- mail specification
\* the preparation of one message from drawn options and a drawn token
InitMail ==
    /\ campaigns = [c \in CampaignIds |-> NoRow]
    /\ emails = {}
    /\ events = <<>>
    /\ dispatches = [d \in Dispatchers |-> IdleDispatch]
    /\ opens = [o \in Openers |-> [pc |-> "idle", trackingId |-> UnknownToken,
                                   inserted |-> FALSE, changes |-> 0, result |-> FALSE]]
    /\ minted = {}
    /\ now = 0
    /\ stats = IdleStats
    /\ render = IdleRender
    /\ credentials = NoCredentials
    /\ request = IdleRequest
    /\ credCalls = [k \in CredentialCallers |-> IdleCredentialCall]
    /\ \E html \in HtmlValues, text \in TextValues, enableTracking \in EnableTrackingValues,
          token \in MailTokens :
          mail = [IdleMail EXCEPT !.emailOptions = [html |-> html, text |-> text,
                                                    enableTracking |-> enableTracking],
                                  !.token = token]
    /\ templates = [t \in TemplateIds |-> NoTemplate]
    /\ templateCalls = [k \in TemplateCallers |-> IdleTemplateCall]

Mail ==
    /\ mail.pc = "idle"
    /\ mail' = [mail EXCEPT !.pc = "done",
                            !.mailOptions = PrepareMail(mail.emailOptions, mail.token)]
    /\ UNCHANGED <<campaigns, emails, events, dispatches, opens, minted, now, stats, render, credentials, request, credCalls, templates, templateCalls>>

MailNext == Mail

SpecMail == InitMail /\ [][MailNext]_vars

\* ---------------------------------------------------------- dispatch with fairness
\* the sendBulkEmails calls of the liveness specification
LiveDispatchers == 1..MaxLiveDispatches

LiveNext ==
    \/ \E d \in LiveDispatchers : BulkStartNoCampaign(d, MaxLiveMessages)
    \/ \E d \in LiveDispatchers : BulkStartCampaign(d, MaxLiveMessages)
    \/ \E d \in LiveDispatchers : BulkStartInsertFails(d, MaxLiveMessages)
    \/ \E d \in LiveDispatchers : CreateTransporterFails(d)
    \/ \E d \in LiveDispatchers : SendMailFails(d)
    \/ \E d \in LiveDispatchers : SendMail(d)
    \/ \E d \in LiveDispatchers : SaveEmail(d)
    \/ \E d \in LiveDispatchers : SaveEmailFails(d)
    \/ \E d \in LiveDispatchers : CompleteCampaign(d)
    \/ \E d \in LiveDispatchers : CompleteCampaignFails(d)

\* the statement call d awaits settles: the transport or the store answers, with a
\* result or with an error, and the event loop resumes the call
Settles(d) ==
    \/ CreateTransporterFails(d)
    \/ SendMailFails(d)
    \/ SendMail(d)
    \/ SaveEmail(d)
    \/ SaveEmailFails(d)
    \/ CompleteCampaign(d)
    \/ CompleteCampaignFails(d)

\* every awaited statement of a started call settles in the end
SpecLive ==
    /\ Init
    /\ [][LiveNext]_vars
    /\ \A d \in LiveDispatchers : WF_vars(Settles(d))

\* ---------------------------------------------------------- templates specification
TemplatesNext ==
    \/ \E k \in TemplateCallers : SaveTemplateRejected(k)
    \/ \E k \in TemplateCallers : SaveTemplate(k)
    \/ \E k \in TemplateCallers : SaveTemplateFails(k)
    \/ \E k \in TemplateCallers : DeleteTemplateSelect(k)
    \/ \E k \in TemplateCallers : DeleteTemplateRow(k)
    \/ \E k \in TemplateCallers : DeleteTemplateFails(k)

SpecTemplates == Init /\ [][TemplatesNext]_vars

\* ------------------------------------------------------------------ properties
Returned(d) == dispatches[d].pc = "returned"

\* how often address e is the email of an entry of list
Occurrences(list, e) == Cardinality({k \in DOMAIN list : list[k].email = e})
OccurrencesIn(rs, e) == Cardinality({k \in DOMAIN rs : rs[k] = e})
EmailsOf(list) == {list[k].email : k \in DOMAIN list}

\* C1: the result of a call with N recipients has totalSent + totalFailed = N, and the
\* two lists have totalSent and totalFailed entries, whatever succeeded or failed
C1_CountsAddUp ==
    \A d \in Dispatchers : Returned(d) =>
        LET res == BulkResult(dispatches[d]) IN
        /\ res.totalSent + res.totalFailed = Len(dispatches[d].recipients)
        /\ Len(res.successfulRecipients) = res.totalSent
        /\ Len(res.failedRecipients) = res.totalFailed

\* a call returned after some of its sends succeeded and some failed
C1_Witness ==
    \E d \in Dispatchers :
        /\ Returned(d)
        /\ BulkResult(dispatches[d]).totalSent >= 1
        /\ BulkResult(dispatches[d]).totalFailed >= 1

\* C2 as stated: no email is in successfulRecipients and in failedRecipients, also when
\* the input list repeats an address
C2_NoEmailInBothLists ==
    \A d \in Dispatchers : Returned(d) =>
        LET res == BulkResult(dispatches[d]) IN
        EmailsOf(res.successfulRecipients) \cap EmailsOf(res.failedRecipients) = {}

\* C2 amended: every occurrence of an address in the input list is recorded in exactly
\* one of the two lists, so an email is in both lists only if the input repeats it
C2_InBothOnlyIfRepeated ==
    \A d \in Dispatchers : Returned(d) =>
        LET res == BulkResult(dispatches[d]) IN
        \A e \in Addresses :
            /\ Occurrences(res.successfulRecipients, e) + Occurrences(res.failedRecipients, e)
                  = OccurrencesIn(dispatches[d].recipients, e)
            /\ e \in EmailsOf(res.successfulRecipients) \cap EmailsOf(res.failedRecipients)
                  => OccurrencesIn(dispatches[d].recipients, e) >= 2

\* a call returned with one address in both lists
C2_Witness ==
    \E d \in Dispatchers :
        /\ Returned(d)
        /\ EmailsOf(dispatches[d].successful) \cap EmailsOf(dispatches[d].failed) # {}

\* C3: the recipients are attempted one by one in input order, each exactly once, and a
\* call leaves its loop only when every recipient has been attempted, whatever the
\* outcomes of the attempts were
C3_EveryRecipientAttemptedOnce ==
    \A d \in Dispatchers :
        LET p == dispatches[d] IN
        /\ \A k \in DOMAIN p.attempted : p.attempted[k] = k
        /\ Len(p.attempted) <= Len(p.recipients)
        /\ p.pc \in {"complete", "returned"} => Len(p.attempted) = Len(p.recipients)
        /\ p.pc = "send" => Len(p.attempted) = p.i - 1
        /\ p.pc = "save" => Len(p.attempted) = p.i

\* the first send of a call failed and a later recipient was still sent to
C3_Witness ==
    \E d \in Dispatchers :
        LET p == dispatches[d] IN
        /\ Returned(d)
        /\ Len(p.recipients) = 2 /\ p.recipients[1] # p.recipients[2]
        /\ Len(p.failed) = 1 /\ p.failed[1].email = p.recipients[1]
        /\ Len(p.successful) = 1 /\ p.successful[1].email = p.recipients[2]

\* C4: when a call with a campaignId returns, its campaign row is completed with
\* sent_count = len(successful) and failed_count = len(failed)
C4_CampaignRowMatchesResult ==
    \A d \in Dispatchers :
        (Returned(d) /\ dispatches[d].campaignId # NoCampaign) =>
            LET row == campaigns[dispatches[d].campaignId] IN
            /\ row.status = "completed"
            /\ row.sent_count = Len(dispatches[d].successful)
            /\ row.failed_count = Len(dispatches[d].failed)

\* three recipients, the send to the second one raised: successful = [1, 3],
\* failed = [2], sent_count = 2, failed_count = 1, status completed
C4_Witness ==
    \E d \in Dispatchers :
        LET p == dispatches[d] IN
        /\ Returned(d) /\ p.campaignId # NoCampaign
        /\ p.recipients = <<"a@x", "b@x", "a@x">>
        /\ [k \in DOMAIN p.successful |-> p.successful[k].email] = <<"a@x", "a@x">>
        /\ [k \in DOMAIN p.failed |-> p.failed[k].email] = <<"b@x">>
        /\ campaigns[p.campaignId] =
              [status |-> "completed", total_recipients |-> 3, sent_count |-> 2, failed_count |-> 1]

\* the call that inserted the row of campaign c
Owns(d, c) ==
    /\ dispatches[d].campaignId = c
    /\ dispatches[d].pc \in {"send", "save", "complete", "returned"}
         \/ (dispatches[d].pc = "raised" /\ dispatches[d].attempted # <<>>)

\* C5: the terminal UPDATE of a call runs at most once, only when every recipient of
\* the call has been attempted and recorded, and exactly once in a call that returns;
\* while a recipient is unattempted or in flight the campaign row is in_progress
C5_TerminalUpdateIsBarrier ==
    /\ \A d \in Dispatchers :
        LET p == dispatches[d] IN
        /\ p.completions <= 1
        /\ p.completions = 1 =>
              /\ Len(p.attempted) = Len(p.recipients)
              /\ Len(p.successful) + Len(p.failed) = Len(p.recipients)
              /\ p.pc = "returned"
        /\ (Returned(d) /\ p.campaignId # NoCampaign) => p.completions = 1
        /\ (p.campaignId # NoCampaign /\ p.pc \in {"send", "save", "complete"}) =>
              campaigns[p.campaignId].status = "in_progress"
    /\ \A c \in CampaignIds :
        campaigns[c].status = "completed" =>
            \E d \in Dispatchers : Owns(d, c) /\ dispatches[d].completions = 1

\* a campaign was completed by a call in which a send failed
C5_Witness ==
    \E d \in Dispatchers :
        /\ Returned(d) /\ dispatches[d].campaignId # NoCampaign
        /\ dispatches[d].completions = 1
        /\ Len(dispatches[d].failed) >= 1 /\ Len(dispatches[d].recipients) >= 2

\* C6: every campaign row has sent_count + failed_count <= total_recipients
C6_CountsWithinTotal ==
    \A c \in CampaignIds :
        campaigns[c].sent_count + campaigns[c].failed_count <= campaigns[c].total_recipients

\* a completed row with sends and failures
C6_Witness ==
    \E c \in CampaignIds :
        /\ campaigns[c].status = "completed"
        /\ campaigns[c].sent_count >= 1 /\ campaigns[c].failed_count >= 1

StatusRank(status) ==
    CASE status = "absent" -> 0
      [] status = "draft" -> 1
      [] status = "in_progress" -> 2
      [] status = "completed" -> 3

\* C7: no step moves a campaign row back: not from completed to in_progress or draft,
\* not from in_progress to draft, and a row never disappears
C7_CampaignStatusMonotonic ==
    [][\A c \in CampaignIds :
          StatusRank(campaigns[c].status) <= StatusRank(campaigns'[c].status)]_vars

\* a second call was made with the campaignId of a completed campaign
C7_Witness ==
    \E d, e \in Dispatchers :
        /\ d # e
        /\ Returned(d) /\ dispatches[d].campaignId # NoCampaign
        /\ campaigns[dispatches[d].campaignId].status = "completed"
        /\ dispatches[e].campaignId = dispatches[d].campaignId
        /\ dispatches[e].pc = "raised"

\* an emails row may go from status a to status b
RecordMayMove(a, b) ==
    \/ a = b
    \/ a = "sent" /\ b \in {"delivered", "opened", "failed"}
    \/ a = "delivered" /\ b \in {"opened", "failed"}

\* C8: no step moves the status of an emails row back: it stays, or moves forward along
\* sent -> delivered -> opened, and a row that is opened or failed keeps its status;
\* no row disappears
C8_RecordStatusNeverReverts ==
    [][\A r \in emails :
          \E r2 \in emails' :
              /\ r2.tracking_id = r.tracking_id
              /\ RecordMayMove(r.status, r2.status)]_vars

\* a pixel request was tracked for a row that was opened already
C8_Witness ==
    \E r \in emails, o \in Openers :
        /\ r.status = "opened"
        /\ opens[o].pc = "done" /\ opens[o].result /\ opens[o].changes = 0
        /\ opens[o].trackingId = r.tracking_id

\* the open events of token t
OpenEvents(t) ==
    {k \in DOMAIN events : events[k].tracking_id = t /\ events[k].event_type = "open"}

\* the calls for token t whose INSERT INTO email_events went through
InsertedCalls(t) == {o \in Openers : opens[o].trackingId = t /\ opens[o].inserted}

\* call o runs its UPDATE in this step and returns true
Updates(o) == opens[o].pc = "update" /\ opens'[o].pc = "done" /\ opens'[o].result

\* C9: an UPDATE of updateEmailTracking that finds the row of its token delivered makes
\* it opened and sets opened_at to the time of the statement; no later step changes the
\* status or opened_at of an opened row; and every call whose INSERT went through added
\* one open event, so k such calls leave k open events
C9_FirstOpenWins ==
    /\ [](\A t \in minted : Cardinality(OpenEvents(t)) = Cardinality(InsertedCalls(t)))
    /\ [][(\A r \in emails : r.status = "opened" => r \in emails')
           /\ (\A o \in Openers, s \in emails :
                (Updates(o) /\ s.tracking_id = opens[o].trackingId /\ s.status = "delivered")
                    => [s EXCEPT !.status = "opened", !.opened_at = now'] \in emails')]_vars

\* two calls ran for one token after its row was saved: the first opened the row at
\* time 0, the second changed nothing; there are two open events
C9_Witness ==
    \E r \in emails, o, q \in Openers :
        /\ o # q
        /\ r.status = "opened" /\ r.opened_at = 0 /\ MaxClock > 0
        /\ opens[o].trackingId = r.tracking_id /\ opens[q].trackingId = r.tracking_id
        /\ opens[o].pc = "done" /\ opens[o].result /\ opens[o].changes = 1
        /\ opens[q].pc = "done" /\ opens[q].result /\ opens[q].changes = 0
        /\ Cardinality(OpenEvents(r.tracking_id)) = 2

\* the calls for token t that ran both statements
CompletedCalls(t) ==
    {o \in Openers : opens[o].trackingId = t /\ opens[o].pc = "done" /\ opens[o].result}

\* the calls for token t whose UPDATE changed a row
TransitionsOf(t) == {o \in CompletedCalls(t) : opens[o].changes >= 1}

\* C10: of the calls that run for a token, in any interleaving, exactly one makes the
\* delivered -> opened transition of its row (none as long as the row is not opened),
\* each of them adds an event, and a campaign's counts.opened counts each opened row
\* once: it is the number of calls that made a transition for a row of the campaign
C10_OneTransitionManyEvents ==
    /\ []((\A r \in emails :
              /\ Cardinality(TransitionsOf(r.tracking_id))
                    = (IF r.status = "opened" THEN 1 ELSE 0)
              /\ Cardinality(OpenEvents(r.tracking_id))
                    >= Cardinality(CompletedCalls(r.tracking_id)))
           /\ (\A c \in CampaignIds :
                CampaignCounts(c).opened =
                    Cardinality({o \in Openers : \E s \in emails :
                        s.campaign_id = c /\ o \in TransitionsOf(s.tracking_id)})))
    /\ [][\A o \in Openers, r \in emails :
            (Updates(o) /\ r.tracking_id = opens[o].trackingId) =>
                opens'[o].changes = (IF r.status = "delivered" THEN 1 ELSE 0)]_vars

\* two calls for the token of one row of a campaign are done: one transition, two
\* events, counts.opened = 1
C10_Witness ==
    \E r \in emails :
        /\ r.campaign_id # NoCampaign
        /\ Cardinality(CompletedCalls(r.tracking_id)) = 2
        /\ Cardinality(TransitionsOf(r.tracking_id)) = 1
        /\ Cardinality(OpenEvents(r.tracking_id)) = 2
        /\ CampaignCounts(r.campaign_id).opened = 1

\* pixel request o has been answered
Answered(o) == opens[o].pc \in {"done", "raised", "unauthorized", "autherror"}

\* C11 as stated: every pixel request is answered 200 with the 1x1 GIF and Content-Type
\* image/gif, with or without a valid bearer token, for a known or an unknown
\* trackingId, whether or not the tracking writes succeed
C11_PixelAlwaysGif ==
    \A o \in Openers : Answered(o) => TrackResponse(o) = GifResponse

\* C12: updateEmailTracking never raises: a call ends by returning true or false, and it
\* returns false when its INSERT or its UPDATE failed, for a known and for an unknown
\* token
C12_RecordOpenNeverRaises ==
    \A o \in Openers :
        /\ opens[o].pc # "raised"
        /\ opens[o].pc \in {"idle", "update", "done", "unauthorized", "autherror"}
        /\ (opens[o].pc = "done" /\ ~opens[o].inserted) => ~opens[o].result

\* the INSERT of one call failed for the token of a message, the UPDATE of another call
\* failed for an unknown token: both calls returned false
C12_Witness ==
    \E o, q \in Openers :
        /\ o # q
        /\ opens[o].pc = "done" /\ ~opens[o].inserted /\ ~opens[o].result
        /\ opens[o].trackingId \in minted
        /\ opens[q].pc = "done" /\ opens[q].inserted /\ ~opens[q].result
        /\ opens[q].trackingId = UnknownToken

\* what authMiddleware did with request o
AuthOutcome(o) ==
    CASE opens[o].pc = "unauthorized" -> "rejected"
      [] opens[o].pc = "autherror" -> "failed"
      [] OTHER -> "passed"

\* C13: two answered pixel requests that differ in their trackingId only (the same
\* outcome of the authentication) have the same answer: status, headers and body do
\* not tell a token that matches an emails row from one that matches none
C13_ResponseIndependentOfToken ==
    \A o, q \in Openers :
        (Answered(o) /\ Answered(q) /\ AuthOutcome(o) = AuthOutcome(q))
            => TrackResponse(o) = TrackResponse(q)

\* one request for the token of a saved row, which it opened, and one for an unknown
\* token: both answers are the GIF
C13_Witness ==
    \E o, q \in Openers :
        /\ opens[o].pc = "done" /\ opens[o].changes = 1
        /\ \E r \in emails : r.tracking_id = opens[o].trackingId /\ r.status = "opened"
        /\ opens[q].pc = "done" /\ opens[q].trackingId = UnknownToken
        /\ TrackResponse(o) = GifResponse /\ TrackResponse(q) = GifResponse

\* C14 as stated: every row of email_events has the tracking_id of some row of emails,
\* because an open reported for a token that matches no row appends no event
C14_EventsBelongToRecords ==
    \A k \in DOMAIN events :
        \E r \in emails : r.tracking_id = events[k].tracking_id

\* the emails rows of the message of entry e of a results list
RowsOf(e) == {r \in emails : r.message_id = e.messageId}

\* C15 as stated: every entry of successful, of a call with any enableTracking, has an
\* emails row with status delivered that carries the campaignId of the call
C15_SuccessPersistsRecord ==
    \A d \in Dispatchers :
        \A k \in DOMAIN dispatches[d].successful :
            \E r \in RowsOf(dispatches[d].successful[k]) :
                r.status = "delivered" /\ r.campaign_id = dispatches[d].campaignId

\* C15 amended: a send the transport accepted is appended to successful under every
\* enableTracking; its entry has a trackingId exactly when enableTracking is not false;
\* without a trackingId no emails row is written for it; with one, the row written for
\* it (none if the INSERT failed) has status delivered, the entry's recipient and
\* trackingId and the campaignId of the call; and there is no other emails row
C15_TrackedSuccessPersistsRecord ==
    /\ \A d \in Dispatchers :
        LET p == dispatches[d] IN
        \A k \in DOMAIN p.successful :
            LET e == p.successful[k] IN
            /\ e.trackingId = NoTracking <=> ~p.enableTracking
            /\ e.trackingId = NoTracking => RowsOf(e) = {}
            /\ \A r \in RowsOf(e) :
                  /\ r.status = "delivered" /\ r.campaign_id = p.campaignId
                  /\ r.recipient = e.email /\ r.tracking_id = e.trackingId
    /\ \A r \in emails :
        \E d \in Dispatchers : \E k \in DOMAIN dispatches[d].successful :
            r \in RowsOf(dispatches[d].successful[k])

\* a call with a campaignId and tracking returned with a delivered row for its entry,
\* and a call without tracking returned an entry that has no row
C15_Witness ==
    \E d, f \in Dispatchers :
        /\ Returned(d) /\ dispatches[d].campaignId # NoCampaign
        /\ Len(dispatches[d].successful) >= 1
        /\ \E r \in RowsOf(dispatches[d].successful[1]) :
              r.status = "delivered" /\ r.campaign_id = dispatches[d].campaignId
        /\ Returned(f) /\ ~dispatches[f].enableTracking
        /\ Len(dispatches[f].successful) >= 1
        /\ RowsOf(dispatches[f].successful[1]) = {}

\* the recipients of call d whose attempt is over and has no entry in successful
FailedAttempts(d) ==
    {i \in DOMAIN dispatches[d].attempted :
        /\ ~(dispatches[d].pc = "save" /\ dispatches[d].i = i)
        /\ \A k \in DOMAIN dispatches[d].successful :
              dispatches[d].successful[k].messageId # <<d, i>>}

\* C16: a step in which a send fails appends the recipient with the error to failed,
\* leaves successful alone and leaves the set of emails rows as it was; and in every
\* state no emails row carries the token or the message of a failed attempt
C16_FailedSendPersistsNothing ==
    /\ [](\A d \in Dispatchers :
            /\ Cardinality(FailedAttempts(d)) = Len(dispatches[d].failed)
            /\ \A i \in FailedAttempts(d) : \A r \in emails :
                  r.tracking_id # generateTrackingPixel(d, i) /\ r.message_id # <<d, i>>)
    /\ [][\A d \in Dispatchers :
            Len(dispatches'[d].failed) # Len(dispatches[d].failed) =>
                /\ dispatches'[d].failed =
                      Append(dispatches[d].failed,
                             [email |-> dispatches[d].recipients[dispatches[d].i],
                              error |-> "Failed to send email"])
                /\ dispatches'[d].successful = dispatches[d].successful
                /\ emails' = emails]_vars

\* a call with tracking saved the row of its first recipient, the send to its second
\* recipient failed: the row of the first is the only emails row
C16_Witness ==
    \E d \in Dispatchers :
        LET p == dispatches[d] IN
        /\ Returned(d) /\ p.enableTracking
        /\ Len(p.recipients) = 2 /\ FailedAttempts(d) = {2}
        /\ Len(p.failed) = 1 /\ p.failed[1].email = p.recipients[2]
        /\ \E r \in emails : emails = {r} /\ r.tracking_id = generateTrackingPixel(d, 1)

\* C17: a message the transport accepted with a token is, once its save is over, an
\* entry of successful with its messageId and trackingId and not an entry of failed,
\* whether or not its emails row was written; and no call is rejected inside its loop,
\* so the dispatch goes on to the next recipient
C17_SaveFailureSwallowed ==
    \A d \in Dispatchers :
        LET p == dispatches[d] IN
        /\ \A i \in DOMAIN p.attempted :
              generateTrackingPixel(d, i) \in minted =>
                  \/ p.pc = "save" /\ p.i = i
                  \/ /\ i \notin FailedAttempts(d)
                     /\ \E k \in DOMAIN p.successful :
                           p.successful[k] = [email |-> p.recipients[i], messageId |-> <<d, i>>,
                                              trackingId |-> generateTrackingPixel(d, i)]
        /\ p.pc = "raised" => (p.attempted = <<>> \/ Len(p.attempted) = Len(p.recipients))

\* the INSERT for the first recipient of a call failed: the recipient is in successful
\* with its trackingId, has no emails row, and the second recipient was sent to and saved
C17_Witness ==
    \E d \in Dispatchers :
        LET p == dispatches[d] IN
        /\ Returned(d) /\ Len(p.recipients) = 2 /\ Len(p.successful) = 2 /\ p.failed = <<>>
        /\ p.successful[1].trackingId = generateTrackingPixel(d, 1)
        /\ p.successful[1].messageId = <<d, 1>>
        /\ \E r \in emails : emails = {r} /\ r.tracking_id = generateTrackingPixel(d, 2)

\* C18 as stated: a call that got past validation returns a result and is not rejected,
\* also when sends fail or when the campaign INSERT or the terminal campaign UPDATE fails
C18_DispatchNeverRaises ==
    \A d \in Dispatchers : dispatches[d].pc # "raised"

\* C18 amended: a call is rejected only by one of its two campaign writes: by the INSERT,
\* before anything was attempted, or by the terminal UPDATE, after every recipient was
\* attempted and recorded; a call without a campaignId is never rejected, and failed
\* sends (of some or of all recipients) and failed emails INSERTs end in a returned
\* result whose counts and lists cover every recipient
C18_OnlyCampaignWritesRaise ==
    \A d \in Dispatchers :
        LET p == dispatches[d] IN
        /\ p.pc = "raised" =>
              /\ p.campaignId # NoCampaign
              /\ \/ p.attempted = <<>> /\ p.successful = <<>> /\ p.failed = <<>>
                 \/ /\ Len(p.attempted) = Len(p.recipients)
                    /\ Len(p.successful) + Len(p.failed) = Len(p.recipients)
        /\ (p.campaignId = NoCampaign /\ Len(p.attempted) = Len(p.recipients) /\ p.pc # "idle"
               /\ p.pc # "save") => Returned(d)
        /\ Returned(d) =>
              /\ BulkResult(p).totalSent + BulkResult(p).totalFailed = Len(p.recipients)
              /\ Len(BulkResult(p).failedRecipients) = Cardinality(FailedAttempts(d))

\* one call returned although a send and an emails INSERT failed in it, another call
\* returned with all its sends failed
C18_Witness ==
    \E d, f \in Dispatchers :
        /\ d # f
        /\ Returned(d) /\ Len(dispatches[d].failed) = 1 /\ Len(dispatches[d].successful) = 1
        /\ dispatches[d].successful[1].trackingId # NoTracking
        /\ RowsOf(dispatches[d].successful[1]) = {}
        /\ Returned(f)
        /\ dispatches[f].successful = <<>>
        /\ Len(dispatches[f].failed) = Len(dispatches[f].recipients)

\* the sends that hold a token: <<d, 0, i>> is the send of call d that is between
\* sendMail and its save, <<d, k, 0>> the send of entry k of successful of call d
TokenHolders ==
    {<<d, 0, dispatches[d].i>> : d \in {e \in Dispatchers : dispatches[e].trackingId # NoTracking}}
    \cup {h \in Dispatchers \X (1..MaxMessages) \X {0} :
            /\ h[2] \in DOMAIN dispatches[h[1]].successful
            /\ dispatches[h[1]].successful[h[2]].trackingId # NoTracking}

TokenOf(h) ==
    IF h[2] = 0 THEN dispatches[h[1]].trackingId
    ELSE dispatches[h[1]].successful[h[2]].trackingId

\* C19: no two sends, of one call or of two calls that run one after the other or
\* interleaved, hold the same trackingId, and no two emails rows share a tracking_id
C19_TrackingTokensUnique ==
    /\ \A g, h \in TokenHolders : TokenOf(g) = TokenOf(h) => g = h
    /\ \A r, r2 \in emails : r.tracking_id = r2.tracking_id => r = r2

\* two calls with tracking returned and the rows of all their messages were saved
C19_Witness ==
    /\ Cardinality(emails) = MaxMessages
    /\ Cardinality(TokenHolders) = MaxMessages
    /\ \E d, f \in Dispatchers :
        /\ d # f /\ Returned(d) /\ Returned(f)
        /\ Len(dispatches[d].successful) >= 2 /\ Len(dispatches[f].successful) >= 1

\* C20: every step of a getCampaignStats call leaves email_campaigns, emails and
\* email_events as they were, and what it read is what the same SELECT reads in the
\* tables it leaves behind: a second call that starts before any write reads the same
\* campaign row, counts and openRateOverTime, or finds no campaign again
C20_StatsReadOnlyIdempotent ==
    [][stats' # stats =>
          /\ campaigns' = campaigns /\ emails' = emails /\ events' = events
          /\ \A c \in CampaignIds : stats'.campaignId = c =>
                /\ stats'.pc = "notfound" =>
                      getCampaignStats(c)' = [error |-> "Campaign not found"]
                /\ stats'.pc = "emails" =>
                      stats'.campaign = getCampaignStats(c)'.campaign
                /\ stats'.pc = "openrate" =>
                      stats'.counts = getCampaignStats(c)'.stats
                /\ stats'.pc = "done" =>
                      stats'.openRateOverTime = getCampaignStats(c)'.openRateOverTime]_vars

\* a call returned the stats of a completed campaign with an opened row and its open
\* event, and a call made now returns the same structure
C20_Witness ==
    /\ stats.pc = "done"
    /\ stats.campaign.status = "completed"
    /\ stats.counts.opened = 1
    /\ Len(stats.openRateOverTime) = 1 /\ stats.openRateOverTime[1].opens >= 1
    /\ StatsResult = getCampaignStats(stats.campaignId)

\* C21: a getCampaignStats call finds no campaign exactly when email_campaigns has no
\* row with its campaignId; it then returns the error value 'Campaign not found', the
\* endpoint answers 404, and the step leaves every table as it was
C21_UnknownCampaignNotFound ==
    /\ [](stats.pc = "notfound" =>
            /\ StatsResult = [error |-> "Campaign not found"]
            /\ StatsResponse.status = 404)
    /\ [][(stats.pc = "idle" /\ stats'.pc \in {"notfound", "emails"}) =>
            /\ campaigns' = campaigns /\ emails' = emails /\ events' = events
            /\ stats'.pc = "notfound" <=> campaigns[stats'.campaignId] = NoRow]_vars

\* the stats of a campaign without a row were asked for while another campaign has a
\* row and a saved message
C21_Witness ==
    /\ stats.pc = "notfound"
    /\ campaigns[stats.campaignId] = NoRow
    /\ \E c \in CampaignIds : campaigns[c] # NoRow
    /\ emails # {}
    /\ StatsResponse = globalErrorHandler(404)

\* the rows of emails of a campaign that have a status
RecordsWith(campaignId, status) ==
    {r \in emails : r.campaign_id = campaignId /\ r.status = status}

\* C22: the counts a getCampaignStats call read for its campaign are the numbers of
\* emails rows of that campaign with status delivered, opened and failed, 0 where
\* there is none; rows of other campaigns are not counted
C22_CountsByStatus ==
    stats.pc \in {"openrate", "done"} =>
        /\ stats.counts.delivered = Cardinality(RecordsWith(stats.campaignId, "delivered"))
        /\ stats.counts.opened = Cardinality(RecordsWith(stats.campaignId, "opened"))
        /\ stats.counts.failed = Cardinality(RecordsWith(stats.campaignId, "failed"))

\* the call returned opened 1, delivered 0 and failed 0 for a campaign while another
\* campaign has a delivered row
C22_Witness ==
    /\ stats.pc = "done"
    /\ StatsResult.stats = [delivered |-> 0, opened |-> 1, failed |-> 0]
    /\ \E r \in emails : r.campaign_id # stats.campaignId /\ r.status = "delivered"

\* C23: no emails row has status failed, so the counts of every campaign, and the
\* counts a getCampaignStats call read, have failed = 0, also for a campaign whose
\* sends failed at the transport
C23_FailedCountIsZero ==
    /\ \A r \in emails : r.status # "failed"
    /\ \A c \in CampaignIds : CampaignCounts(c).failed = 0
    /\ stats.pc \in {"openrate", "done"} => stats.counts.failed = 0

\* the call returned the stats of a completed campaign whose row has failed_count 1:
\* counts.failed is 0
C23_Witness ==
    /\ stats.pc = "done"
    /\ stats.campaign.status = "completed" /\ stats.campaign.failed_count >= 1
    /\ StatsResult.stats.failed = 0

\* the open events whose tracking_id is that of an emails row of the campaign with
\* opened_at on the given date (NULL is the date of a row that is not opened)
OpenEventsOn(campaignId, date) ==
    {k \in DOMAIN events :
        /\ events[k].event_type = "open"
        /\ \E r \in emails :
              /\ r.campaign_id = campaignId /\ r.tracking_id = events[k].tracking_id
              /\ DateOf(r.opened_at) = date}

\* the open events whose tracking_id is that of an emails row of the campaign
OpenEventsOf(campaignId) ==
    {k \in DOMAIN events :
        /\ events[k].event_type = "open"
        /\ \E r \in emails :
              r.campaign_id = campaignId /\ r.tracking_id = events[k].tracking_id}

RECURSIVE SumOpens(_)
SumOpens(buckets) ==
    IF buckets = <<>> THEN 0 ELSE buckets[1].opens + SumOpens(Tail(buckets))

\* C24: the openRateOverTime a getCampaignStats call read has its buckets in strictly
\* ascending order of date, so no date twice; it has a bucket for a date exactly when
\* an open event belongs to a row of the campaign whose opened_at is on that date
\* (the rows that have events and no opened_at make one bucket with date NULL, first);
\* the opens of a bucket is the number of those events; and the opens of all buckets
\* add up to the number of open events that belong to rows of the campaign
C24_OpenRateBuckets ==
    stats.pc = "done" =>
        LET buckets == stats.openRateOverTime
            c == stats.campaignId
        IN  /\ \A k \in 1..(Len(buckets) - 1) : buckets[k].date < buckets[k + 1].date
            /\ \A k \in DOMAIN buckets :
                  /\ buckets[k].opens >= 1
                  /\ buckets[k].opens = Cardinality(OpenEventsOn(c, buckets[k].date))
            /\ \A r \in emails, k \in DOMAIN events :
                  (r.campaign_id = c /\ events[k].tracking_id = r.tracking_id) =>
                      \E b \in DOMAIN buckets : buckets[b].date = DateOf(r.opened_at)
            /\ SumOpens(buckets) = Cardinality(OpenEventsOf(c))

\* two rows of the campaign opened at different times of one day, three open events:
\* one bucket with opens 3
C24_Witness ==
    /\ stats.pc = "done"
    /\ \E r, r2 \in emails :
          /\ r.campaign_id = stats.campaignId /\ r2.campaign_id = stats.campaignId
          /\ r.status = "opened" /\ r2.status = "opened"
          /\ r.opened_at # r2.opened_at /\ DateOf(r.opened_at) = DateOf(r2.opened_at)
    /\ Len(stats.openRateOverTime) = 1
    /\ stats.openRateOverTime[1].opens = 3

\* the content with every placeholder whose trimmed inner text is a key of the
\* recipient replaced by the value of that key, everything else as it is
Substituted(content, recipient) ==
    LET pieces == Pieces(content, 1)
    IN  Concat([k \in DOMAIN pieces |->
                   IF pieces[k].match /\ Trim(pieces[k].placeholder) \in DOMAIN recipient
                   THEN recipient[Trim(pieces[k].placeholder)]
                   ELSE pieces[k].text])

\* C25: what replacePlaceholders returns is the content with every {{key}} whose
\* trimmed inner text is a key of the recipient replaced by the recipient's value, every
\* other placeholder and all text outside placeholders left as they are; "Hello {{name}}"
\* with name Ann gives "Hello Ann" and "Hi {{missing}}" with no key gives itself
C25_RenderSubstitutes ==
    render.pc = "done" =>
        /\ render.result = Substituted(render.content, render.recipientData)
        /\ (render.content = Hello \o NamePlaceholder /\ DOMAIN render.recipientData = {NameKey})
              => render.result = Hello \o AnnText
        /\ (render.content = Hi \o MissingPlaceholder /\ render.recipientData = EmptyRecipient)
              => render.result = render.content

\* the request lacks a required field: to, subject or both text and html for
\* /email/send; recipients (absent, not an array, or empty), subject or both text and
\* html for /email/send-bulk
MissingRequiredField ==
    LET body == request.body
        absent(field) == field = "undefined"
    IN  \/ absent(body.subject)
        \/ absent(body.text) /\ absent(body.html)
        \/ request.route = "send" /\ absent(body.to)
        \/ request.route = "send-bulk"
              /\ (body.recipients.kind # "array" \/ body.recipients.items = <<>>)

\* C26: a request that lacks a required field is answered 400 by the first step of
\* its handler, and at no time has it looked a credential up, called the service, sent
\* anything to the transport or written a campaign, emails or email_events row
C26_InvalidRejectedBeforeEffects ==
    (request.pc # "idle" /\ MissingRequiredField) =>
        /\ request.pc \in {"received", "responded"}
        /\ request.pc = "responded" => request.status = 400
        /\ request.lookups = 0
        /\ request.sends = 0
        /\ dispatches[1] = IdleDispatch
        /\ minted = {}
        /\ \A c \in CampaignIds : campaigns[c] = NoRow
        /\ emails = {}
        /\ events = <<>>

\* a send-bulk request with an empty recipients array, everything else present and
\* a default credential of the user stored, has been answered 400
C26_Witness ==
    /\ request.pc = "responded" /\ request.status = 400
    /\ request.route = "send-bulk"
    /\ request.body.recipients = [kind |-> "array", items |-> <<>>]
    /\ request.body.subject = "value" /\ request.body.html = "value"
    /\ getCredentials(request.body.credentialId, request.user) # {}

\* the emails rows of the messages of call d
RowsOfCall(d) == {r \in emails : r.message_id[1] = d}

\* what call d has done, holds and has written is its own: the entries of its lists
\* are its own messages, its rows carry its campaignId, and its campaign row is the
\* one it inserted until it returns and the one it computed from its lists after that
OwnOutcome(d) ==
    LET p == dispatches[d] IN
    /\ \A k \in DOMAIN p.successful :
          /\ p.successful[k].messageId[1] = d
          /\ p.successful[k].email = p.recipients[p.successful[k].messageId[2]]
    /\ \A r \in RowsOfCall(d) :
          r.campaign_id = p.campaignId /\ r.recipient = p.recipients[r.message_id[2]]
    /\ (p.campaignId # NoCampaign /\ p.pc \in {"send", "save", "complete"}) =>
          campaigns[p.campaignId] =
              [status |-> "in_progress", total_recipients |-> Len(p.recipients),
               sent_count |-> 0, failed_count |-> 0]
    /\ (p.campaignId # NoCampaign /\ p.pc = "returned") =>
          campaigns[p.campaignId] =
              [status |-> "completed", total_recipients |-> Len(p.recipients),
               sent_count |-> Len(p.successful), failed_count |-> Len(p.failed)]

\* a step of call d leaves call e, e's campaign row and e's rows as they are
LeavesAlone(d, e) ==
    /\ dispatches'[e] = dispatches[e]
    /\ dispatches[e].campaignId # NoCampaign =>
          campaigns'[dispatches[e].campaignId] = campaigns[dispatches[e].campaignId]
    /\ RowsOfCall(e)' = RowsOfCall(e)

\* C27: of two sendBulkEmails calls with different campaignIds, in every interleaving
\* of their steps, no step of one changes what the other holds in its lists, the
\* other's campaign row or the other's emails rows; so each call's lists, the counts and
\* status of its campaign row and the campaign_id of its rows come from its own
\* steps alone
C27_DispatchesIndependent ==
    /\ [](\A d \in Dispatchers : OwnOutcome(d))
    /\ [][\A d, e \in Dispatchers :
            (/\ d # e
             /\ dispatches'[d] # dispatches[d]
             /\ dispatches'[d].campaignId # dispatches[e].campaignId)
                => LeavesAlone(d, e)]_vars

\* two calls with different campaigns have returned, the first with one message
\* sent and one failed, the second with one sent, and both have rows
C27_Witness ==
    /\ Returned(1) /\ Returned(2)
    /\ dispatches[1].campaignId # NoCampaign /\ dispatches[2].campaignId # NoCampaign
    /\ dispatches[1].campaignId # dispatches[2].campaignId
    /\ campaigns[dispatches[1].campaignId].sent_count = 1
    /\ campaigns[dispatches[1].campaignId].failed_count = 1
    /\ campaigns[dispatches[2].campaignId].sent_count = 1
    /\ campaigns[dispatches[2].campaignId].failed_count = 0
    /\ RowsOfCall(1) # {} /\ RowsOfCall(2) # {}

Interrupted(d) == dispatches[d].pc = "interrupted"

\* C28 as stated: the campaign row of an interrupted call is in_progress and holds the
\* counts of the recipients processed so far
C28_InterruptedKeepsPartialCounts ==
    \A d \in Dispatchers :
        (Interrupted(d) /\ dispatches[d].campaignId # NoCampaign) =>
            /\ campaigns[dispatches[d].campaignId].status = "in_progress"
            /\ campaigns[dispatches[d].campaignId].sent_count = Len(dispatches[d].successful)
            /\ campaigns[dispatches[d].campaignId].failed_count = Len(dispatches[d].failed)

\* C28: when a call is interrupted, the emails rows written so far stay as they are
\* and its campaign row stays in_progress with sent_count and failed_count still 0,
\* whatever number of recipients has been processed; a campaign row is completed only
\* when every recipient of its call has been attempted
C28_InterruptedStaysInProgress ==
    /\ [](\A d \in Dispatchers :
            LET p == dispatches[d] IN
            /\ (Interrupted(d) /\ p.campaignId # NoCampaign) =>
                  campaigns[p.campaignId] =
                      [status |-> "in_progress", total_recipients |-> Len(p.recipients),
                       sent_count |-> 0, failed_count |-> 0]
            /\ (p.campaignId # NoCampaign /\ p.pc # "raised"
                  /\ campaigns[p.campaignId].status = "completed") =>
                  /\ Len(p.attempted) = Len(p.recipients)
                  /\ Len(p.successful) + Len(p.failed) = Len(p.recipients))
    /\ [][emails \subseteq emails']_vars

\* a call with a campaign was interrupted before its second recipient, the first
\* sent and saved: the row of the first is stored, the campaign row counts nothing
C28_Witness ==
    /\ Interrupted(1)
    /\ dispatches[1].campaignId # NoCampaign
    /\ Len(dispatches[1].recipients) = 2 /\ dispatches[1].i = 2
    /\ Len(dispatches[1].successful) = 1
    /\ \E r \in emails : r.message_id = <<1, 1>> /\ r.campaign_id = dispatches[1].campaignId
    /\ campaigns[dispatches[1].campaignId].status = "in_progress"
    /\ campaigns[dispatches[1].campaignId].sent_count = 0

\* C29: every step leaves the rows email_events holds as they are and in their
\* order, and at most adds rows after them: the log of a state is a prefix of the log
\* of every later state
C29_EventsAppendOnly ==
    [][/\ Len(events') >= Len(events)
       /\ SubSeq(events', 1, Len(events)) = events]_vars

\* two opens have been recorded, the first for an unknown token, the second for
\* the token of a stored row that is now opened: the log holds both, in that order
C29_Witness ==
    /\ Len(events) = 2
    /\ events[1].tracking_id = UnknownToken
    /\ \E r \in emails : r.tracking_id = events[2].tracking_id /\ r.status = "opened"
    /\ \A o \in Openers : opens[o].pc = "done"

\* the credentials of a user that are flagged default
DefaultsOf(user) == {r \in credentials.rows : r.user_id = user /\ r.is_default}

\* C30: after any saveEmailCredentials and deleteEmailCredentials calls, in any
\* interleaving, at most one credential of a user is flagged default, and a resolution
\* without a credentialId has returned that user's credential
C30_OneDefaultPerUser ==
    /\ \A u \in Users : Cardinality(DefaultsOf(u)) <= 1
    /\ \A k \in CredentialCallers :
          (credCalls[k].kind = "resolve" /\ credCalls[k].status = 200) =>
              credCalls[k].resultUser = credCalls[k].user

\* the last n characters of a text, and the text without them
Suffix(text, n) == SubSeq(text, Len(text) - n + 1, Len(text))
WithoutSuffix(text, n) == SubSeq(text, 1, Len(text) - n)

\* C31: unless enableTracking is the value false, one token is minted, it is the
\* trackingId returned, and the html handed to the transport is the original html
\* followed by the pixel markup of that token, or, without an html body, the text
\* wrapped in a div (line breaks as <br>) followed by the pixel, or the pixel alone
\* when there is no text either; when enableTracking is false no token is minted,
\* the trackingId is null and the html is the original one
C31_TrackingPixelAppended ==
    mail.pc = "done" =>
        LET o == mail.emailOptions
            m == mail.mailOptions
            pixel == trackingPixelHtml(mail.token)
            n == Len(pixel)
            absent(text) == text = Undefined \/ text = <<>>
        IN  IF o.enableTracking # "false"
            THEN /\ m.trackingId = mail.token
                 /\ m.generated = 1
                 /\ Len(m.html) >= n
                 /\ Suffix(m.html, n) = pixel
                 /\ ~absent(o.html) => WithoutSuffix(m.html, n) = o.html
                 /\ (absent(o.html) /\ absent(o.text)) => m.html = pixel
                 /\ (absent(o.html) /\ o.text = <<"H", "i">>) =>
                        WithoutSuffix(m.html, n) = <<"<", "d", "i", "v", ">", "H", "i", "<", "/", "d", "i", "v", ">">>
                 /\ (absent(o.html) /\ o.text = <<"a", "\n", "b">>) =>
                        WithoutSuffix(m.html, n) = <<"<", "d", "i", "v", ">", "a", "<", "b", "r", ">", "b", "<", "/", "d", "i", "v", ">">>
            ELSE /\ m.trackingId = NoTracking
                 /\ m.generated = 0
                 /\ m.html = IF absent(o.html) THEN <<>> ELSE o.html

\* enableTracking is null, there is no html and the text has a line break: the
\* message carries the synthesized body and the pixel of the token returned
C31_Witness ==
    /\ mail.pc = "done"
    /\ mail.emailOptions.enableTracking = "null"
    /\ mail.emailOptions.html = Undefined
    /\ mail.mailOptions.trackingId = mail.token
    /\ mail.mailOptions.html = <<"<", "d", "i", "v", ">", "a", "<", "b", "r", ">", "b", "<", "/", "d", "i", "v", ">">> \o trackingPixelHtml(mail.token)

\* the content is one {{...}} span: the text between its first two and last two
\* characters, or Undefined when it is not such a span
InnerText(content) ==
    IF /\ Len(content) >= 5
       /\ SubSeq(content, 1, 2) = <<"{", "{">>
       /\ SubSeq(content, Len(content) - 1, Len(content)) = <<"}", "}">>
    THEN SubSeq(content, 3, Len(content) - 2) ELSE Undefined

Contains(text, char) == \E k \in DOMAIN text : text[k] = char
CountOf(text, char) == Cardinality({k \in DOMAIN text : text[k] = char})

\* the inner text of the span has one } that is not its last character, or one {,
\* and no other brace
SingleBraceInside(inner) ==
    /\ inner # Undefined
    /\ CountOf(inner, "{") + CountOf(inner, "}") = 1
    /\ inner[Len(inner)] # "}"

\* C32 as stated: a span whose inner text holds a single } or { is one placeholder,
\* replaced by the value of its trimmed inner text when the recipient has that key
\* and left as it is otherwise
C32_SpanWithBraceIsPlaceholder ==
    (render.pc = "done" /\ SingleBraceInside(InnerText(render.content))) =>
        LET key == Trim(InnerText(render.content))
        IN  render.result = IF key \in DOMAIN render.recipientData
                            THEN render.recipientData[key] ELSE render.content

\* C32: a span whose inner text holds a single { is one placeholder, replaced by the
\* value of its trimmed inner text when the recipient has that key and left as it
\* is otherwise; a span whose inner text holds a single } before its last character
\* is no placeholder and is returned as it is, whatever keys the recipient has
C32_OnlyOpenBraceInsidePlaceholder ==
    (render.pc = "done" /\ SingleBraceInside(InnerText(render.content))) =>
        LET inner == InnerText(render.content)
            key == Trim(inner)
        IN  IF Contains(inner, "}") THEN render.result = render.content
            ELSE render.result = IF key \in DOMAIN render.recipientData
                                 THEN render.recipientData[key] ELSE render.content

\* "{{a}b}}" was rendered for a recipient that has the key "a}b": it is unchanged
C32_Witness ==
    /\ render.pc = "done"
    /\ render.content = CloseBracePlaceholder
    /\ CloseBraceKey \in DOMAIN render.recipientData
    /\ render.result = CloseBracePlaceholder

\* C33: a campaign row that is completed has sent_count + failed_count equal to
\* total_recipients, whichever sends failed at the transport and whichever saves of
\* emails rows failed
C33_CompletedCountsAddUp ==
    \A c \in CampaignIds :
        campaigns[c].status = "completed" =>
            campaigns[c].sent_count + campaigns[c].failed_count = campaigns[c].total_recipients

\* a completed campaign of three recipients: one send failed, two were accepted
\* and the save of one of them failed, so one emails row is stored
C33_Witness ==
    \E c \in CampaignIds :
        /\ campaigns[c].status = "completed"
        /\ campaigns[c].total_recipients = 3
        /\ campaigns[c].failed_count = 1
        /\ campaigns[c].sent_count = 2
        /\ Cardinality({r \in emails : r.campaign_id = c}) = 1
        /\ \E d \in Dispatchers :
              /\ dispatches[d].campaignId = c /\ dispatches[d].enableTracking
              /\ Returned(d)

\* C34: an emails row has opened_at set exactly when its status is opened
C34_OpenedAtIffOpened ==
    \A r \in emails : (r.opened_at # NoTime) <=> (r.status = "opened")

\* a row is opened with its opened_at set, after two calls ran for its token: the
\* UPDATE of one changed the row, the UPDATE of the other found nothing to change
C34_Witness ==
    /\ \E r \in emails : r.status = "opened" /\ r.opened_at # NoTime
    /\ \A o \in Openers : opens[o].pc = "done" /\ opens[o].result
    /\ \E o, q \in Openers : opens[o].changes = 1 /\ opens[q].changes = 0

\* C35: every emails row with status opened has an open event with its tracking_id
\* in email_events, in every interleaving of the calls and whichever of their
\* statements fail
C35_OpenedHasEvent ==
    \A r \in emails :
        r.status = "opened" =>
            \E k \in DOMAIN events :
                events[k].tracking_id = r.tracking_id /\ events[k].event_type = "open"

\* a row is opened and has one event, while the other call for its token failed
\* at its INSERT and returned false
C35_Witness ==
    /\ \E r \in emails :
          /\ r.status = "opened"
          /\ Cardinality({k \in DOMAIN events : events[k].tracking_id = r.tracking_id}) = 1
          /\ \E o \in Openers :
                /\ opens[o].trackingId = r.tracking_id
                /\ opens[o].pc = "done" /\ ~opens[o].inserted /\ ~opens[o].result

\* C36: a getCampaignStats call that runs beside updateEmailTracking calls returns no
\* openRateOverTime bucket whose date is NULL, and no open event is in email_events
\* while the emails row of its tracking_id has opened_at NULL
C36_NoNullDateBucket ==
    /\ stats.pc = "done" =>
          \A k \in DOMAIN stats.openRateOverTime : stats.openRateOverTime[k].date # NoTime
    /\ \A r \in emails, k \in DOMAIN events :
          (events[k].event_type = "open" /\ events[k].tracking_id = r.tracking_id) =>
              r.opened_at # NoTime

\* the call of opener o has started and its INSERT INTO email_events failed
InsertFailed(o) == opens[o].pc \in {"update", "done", "raised"} /\ ~opens[o].inserted

\* C37: the step in which the INSERT of a call fails adds no event and leaves every
\* emails row, the row of the call's token included, with its status and opened_at;
\* the call is over with that step, its result is false, and it never runs its UPDATE
C37_InsertFailureStopsCall ==
    /\ [](\A o \in Openers :
            InsertFailed(o) =>
                opens[o].pc = "done" /\ ~opens[o].result /\ opens[o].changes = 0)
    /\ [][\A o \in Openers :
            (opens[o].pc = "idle" /\ InsertFailed(o)') =>
                /\ events' = events
                /\ emails' = emails
                /\ campaigns' = campaigns]_vars

\* the INSERT of a call for the token of a stored row failed: the row is delivered
\* with opened_at unset, the log is empty and the call returned false
C37_Witness ==
    /\ events = <<>>
    /\ \E o \in Openers, r \in emails :
          /\ InsertFailed(o) /\ opens[o].pc = "done" /\ ~opens[o].result
          /\ opens[o].trackingId = r.tracking_id
          /\ r.status = "delivered" /\ r.opened_at = NoTime

\* call d starts in this step
Starts(d) == dispatches[d].pc = "idle" /\ dispatches'[d].pc # "idle"

\* C38: a call whose campaign INSERT fails raises in the step in which it starts: it
\* has attempted no recipient and never will, and the step leaves every campaign row
\* and every emails row as it is and mints no token; a call that is given the id of
\* a campaign row that exists always fails in this way
C38_InsertFailureRaisesFirst ==
    /\ [][\A d \in Dispatchers :
            /\ (Starts(d) /\ dispatches'[d].pc = "raised") =>
                  /\ campaigns' = campaigns
                  /\ emails' = emails
                  /\ minted' = minted
                  /\ dispatches'[d].attempted = <<>>
                  /\ dispatches'[d].successful = <<>> /\ dispatches'[d].failed = <<>>
            /\ (Starts(d) /\ dispatches'[d].campaignId \in CampaignIds) =>
                  (campaigns[dispatches'[d].campaignId] # NoRow =>
                      dispatches'[d].pc = "raised")
            /\ dispatches[d].pc = "raised" => dispatches'[d] = dispatches[d]]_vars
    /\ [](\A d \in Dispatchers :
            (dispatches[d].pc = "raised" /\ dispatches[d].completions = 0
                /\ Len(dispatches[d].attempted) < Len(dispatches[d].recipients)) =>
                    /\ dispatches[d].attempted = <<>>
                    /\ \A r \in emails : r.message_id[1] # d)

\* the second call was given the campaignId of the first, which has completed with
\* a row saved: the second call raised without an attempt and the row of the
\* campaign has the counts of the first call
C38_Witness ==
    /\ Returned(1)
    /\ dispatches[2].pc = "raised"
    /\ dispatches[2].campaignId = dispatches[1].campaignId
    /\ dispatches[2].attempted = <<>>
    /\ campaigns[dispatches[1].campaignId].status = "completed"
    /\ campaigns[dispatches[1].campaignId].sent_count = Len(dispatches[1].successful)
    /\ campaigns[dispatches[1].campaignId].total_recipients = Len(dispatches[1].recipients)
    /\ Len(dispatches[1].recipients) # Len(dispatches[2].recipients)
    /\ \E r \in emails : r.message_id[1] = 1

\* C39: a call that has started with a campaignId ends in the end: it returns with
\* its campaign row completed, unless a campaign write failed and it raised; no
\* pattern of failed sends and failed saves keeps the campaign in_progress for ever
C39_DispatchTerminatesCompleted ==
    \A d \in LiveDispatchers, c \in CampaignIds :
        (dispatches[d].pc \in {"send", "save", "complete"} /\ dispatches[d].campaignId = c)
            ~> \/ Returned(d) /\ campaigns[c].status = "completed"
               \/ dispatches[d].pc = "raised"

\* a call with a campaign has returned with the row completed after a failed send
\* and an accepted message whose save failed
C39_Witness ==
    \E d \in LiveDispatchers :
        /\ Returned(d)
        /\ dispatches[d].campaignId # NoCampaign
        /\ campaigns[dispatches[d].campaignId].status = "completed"
        /\ Len(dispatches[d].failed) = 1 /\ Len(dispatches[d].successful) = 1
        /\ dispatches[d].successful[1].trackingId # NoTracking
        /\ \A r \in emails : r.message_id[1] # d

\* C40: a step of a request of user u changes or removes no template row whose
\* user_id is another user, whether the request is a delete or a save, a save with
\* the id of that row included
C40_OnlyOwnerChangesTemplate ==
    [][\A t \in TemplateIds, k \in TemplateCallers :
            (/\ templates[t] # NoTemplate
             /\ templates'[t] # templates[t]
             /\ templateCalls'[k] # templateCalls[k])
                => templateCalls'[k].user = templates[t].user_id]_vars

=============================================================================
